---- MODULE Spec2Model ----
(***************************************************************************)
(* Action-orchestration engine of the X agent: budget ledger (budget.py),  *)
(* persistent store and deduplication index (storage.py), rate limiter     *)
(* (rate_limiter.py) and the scheduler / interaction pass (scheduler.py,   *)
(* actions.py).                                                            *)
(*                                                                         *)
(* Conventions                                                             *)
(*   - time is counted in whole seconds since an arbitrary epoch; the      *)
(*     ISO-8601 strings the store compares lexicographically order exactly *)
(*     as these numbers do;                                                *)
(*   - a text is a sequence of one-character strings;                      *)
(*   - buffer_pct is carried as an integer percentage p (the float p/100), *)
(*     jaccard_threshold as a fraction <<num, den>>;                       *)
(*   - None is the model value NoneVal.                                    *)
(***************************************************************************)
EXTENDS Integers, Sequences, FiniteSets, TLC

VARIABLES
    now,            \* wall clock, seconds
    period,         \* index of the current UTC year-month (YYYY-MM)
    usage_monthly,  \* table usage_monthly: period -> [create_count, read_count]
    budget_mgr,     \* the BudgetManager under use (caps and soft caps)
    budget_ret,     \* last can_read / can_write call and what it returned
    budget_ops,     \* number of add_reads / add_writes calls made so far
    actions,        \* table actions: the append-only log of ActionRecords
    text_hashes,    \* table text_hashes: rows keyed by text_hash
    dup_ret,        \* the is_text_duplicate call in progress and its result
    frac,           \* milliseconds into the current second: time.time() = now + frac/1000
    limits,         \* RateLimiter.limits: endpoint -> [limit, remaining, reset, updated_at]
    rl_ret,         \* the RateLimiter call in progress and its result
    pc,             \* position of the agent process inside run_scheduler
    cfg,            \* the run's arguments and configuration (mode, dry_run, plan, ...)
    loc,            \* local variables of run_post_action / run_interact_actions / act_on_search
    api_calls,      \* history: the Social API calls the run has issued (and the
                    \* calls a dry run printed instead, path "simulated"), in order
    post_trace,     \* history: the decisions run_post_action has taken, in order
    post_snap,      \* history: the persistent state when run_post_action was entered
    run_snap,       \* history: the persistent state when the run started
    passes,         \* number of runs of the agent process started so far
    backoff,        \* the RateLimiter.backoff_and_retry call in progress and its history
    request,        \* the request_with_retries call in progress and its history
    bandit,         \* table bandit: rows [arm, alpha, beta], keyed by arm
    metrics,        \* table metrics: rows of counts and reward, keyed by post_id
    learn,          \* the learner call in progress (compute_reward, settle_all,
                    \* bandit_choose) and its history
    engagement,     \* the platform: post_id -> the public metrics get_tweet returns
    slot_ret        \* the current_slot call in progress and its result

NoRet == [op |-> "None"]

budgetVars == <<period, usage_monthly, budget_mgr, budget_ret, budget_ops>>

storeVars == <<actions, text_hashes, dup_ret>>

rateVars == <<frac, limits, rl_ret>>

schedVars == <<pc, cfg, loc, api_calls, post_trace, post_snap, run_snap, passes>>

retryVars == <<backoff, request>>

learnVars == <<bandit, metrics, learn, engagement, slot_ret>>

vars == <<now, budgetVars, storeVars, rateVars, schedVars, retryVars, learnVars>>

\* what the actions of one component leave alone
budgetRest == <<storeVars, rateVars, schedVars, retryVars, learnVars>>

storeRest == <<budgetVars, rateVars, schedVars, retryVars, learnVars>>

rateRest == <<budgetVars, storeVars, schedVars, retryVars, learnVars>>

NoneVal == "None"

(***************************************************************************)
(* Bounds of the exploration.                                              *)
(***************************************************************************)
MaxPeriod == 2
MaxCount == 2
MaxOps == 2
MaxFiller == 200
MaxStored == 1
MaxLog == 1
MaxAdvance == 1
MaxRateSecs == 1
CustomCap == 4

BufferPcts == {0, 5, 50}

(***************************************************************************)
(* budget.py                                                               *)
(***************************************************************************)
Plans == {"free", "basic", "pro"}

PLAN_CAPS ==
    [p \in Plans |->
        CASE p = "free"  -> [reads |-> 100, writes |-> 500]
          [] p = "basic" -> [reads |-> 15000, writes |-> 50000]
          [] p = "pro"   -> [reads |-> 1000000, writes |-> 300000]]

DefaultBufferPct == 5

\* int(cap * (1 - buffer_pct)), buffer_pct = pct / 100
SoftCap(cap, pct) == (cap * (100 - pct)) \div 100

\* custom_cap or base_cap: None and 0 both fall back to the plan's cap, so an
\* absent custom cap is carried as 0
OrElse(custom, base) == IF custom = 0 THEN base ELSE custom

BudgetManager(plan, pct, custom_read_cap, custom_write_cap) ==
    LET read_cap  == OrElse(custom_read_cap, PLAN_CAPS[plan].reads)
        write_cap == OrElse(custom_write_cap, PLAN_CAPS[plan].writes)
    IN  [plan |-> plan, buffer_pct |-> pct,
         read_cap |-> read_cap, write_cap |-> write_cap,
         soft_read_cap |-> SoftCap(read_cap, pct),
         soft_write_cap |-> SoftCap(write_cap, pct)]

\* Storage.get_monthly_usage: the row of the period, zeros when there is none
get_monthly_usage(table, p) ==
    IF p \in DOMAIN table THEN table[p]
    ELSE [create_count |-> 0, read_count |-> 0]

\* the row set to the arguments instead of grown by them
update_monthly_usage_Replace(table, p, create_count, read_count) ==
    [q \in DOMAIN table \cup {p} |->
        IF q = p THEN [create_count |-> create_count, read_count |-> read_count]
        ELSE table[q]]

\* Storage.update_monthly_usage: add to the row, or insert it
update_monthly_usage(table, p, create_count, read_count) ==
    IF p \in DOMAIN table
    THEN [table EXCEPT ![p] = [create_count |-> @.create_count + create_count,
                               read_count |-> @.read_count + read_count]]
    ELSE [q \in DOMAIN table \cup {p} |->
            IF q = p THEN [create_count |-> create_count, read_count |-> read_count]
            ELSE table[q]]

get_usage(mgr, table, p) ==
    LET u == get_monthly_usage(table, p)
    IN  [period |-> p, reads |-> u.read_count, writes |-> u.create_count]

can_read(mgr, table, p, posts_count) ==
    LET new_total == get_usage(mgr, table, p).reads + posts_count
    IN  IF new_total > mgr.read_cap THEN <<FALSE, "Hard cap exceeded">>
        ELSE IF new_total > mgr.soft_read_cap THEN <<FALSE, "Soft cap exceeded">>
        ELSE <<TRUE, "OK">>

\* can_write with the soft-cap comparison off by one (>= for >)
can_write_SoftInclusive(mgr, table, p, count) ==
    LET new_total == get_usage(mgr, table, p).writes + count
    IN  IF new_total > mgr.write_cap THEN <<FALSE, "Hard cap exceeded">>
        ELSE IF new_total >= mgr.soft_write_cap THEN <<FALSE, "Soft cap exceeded">>
        ELSE <<TRUE, "OK">>

can_write(mgr, table, p, count) ==
    LET new_total == get_usage(mgr, table, p).writes + count
    IN  IF new_total > mgr.write_cap THEN <<FALSE, "Hard cap exceeded">>
        ELSE IF new_total > mgr.soft_write_cap THEN <<FALSE, "Soft cap exceeded">>
        ELSE <<TRUE, "OK">>

add_reads(table, p, posts_count) == update_monthly_usage(table, p, 0, posts_count)

add_writes(table, p, count) == update_monthly_usage(table, p, count, 0)


(***************************************************************************)
(* storage.py: text normalisation and the deduplication index              *)
(***************************************************************************)
SecondsPerDay == 86400

\* no explicit dt argument (dt=None)
NoTime == -1

Whitespace == {" "}

\* str.lower() on one character
lower(c) ==
    CASE c = "A" -> "a"
      [] c = "L" -> "l"
      [] c = "R" -> "r"
      [] OTHER   -> c

RECURSIVE SplitFrom(_, _, _, _)
SplitFrom(t, i, cur, acc) ==
    IF i > Len(t)
    THEN IF cur = <<>> THEN acc ELSE Append(acc, cur)
    ELSE IF t[i] \in Whitespace
         THEN SplitFrom(t, i + 1, <<>>, IF cur = <<>> THEN acc ELSE Append(acc, cur))
         ELSE SplitFrom(t, i + 1, Append(cur, t[i]), acc)

\* str.split(): the maximal runs of non-whitespace characters, in order
split(t) == SplitFrom(t, 1, <<>>, <<>>)

RECURSIVE join(_)
\* " ".join(words)
join(words) ==
    IF words = <<>> THEN <<>>
    ELSE IF Len(words) = 1 THEN words[1]
    ELSE words[1] \o <<" ">> \o join(Tail(words))

\* normalize_text: " ".join(text.lower().split())
normalize_text(t) == join(split([i \in 1..Len(t) |-> lower(t[i])]))

\* set(s.split())
token_set(t) == LET w == split(t) IN {w[i] : i \in 1..Len(w)}

\* hashlib.sha256(text.encode()).hexdigest(): a digest that differs for
\* different texts
sha256(t) == <<"sha256">> \o t

\* Storage.store_text_hash: INSERT OR REPLACE keyed by text_hash
store_text_hash(rows, t, post_id, dt, clock) ==
    LET created_at == IF dt = NoTime THEN clock ELSE dt
        row == [text_hash |-> sha256(t), post_id |-> post_id, text |-> t,
                text_norm |-> normalize_text(t), created_at |-> created_at]
    IN  {r \in rows : r.text_hash # row.text_hash} \cup {row}

\* Storage.log_action: append the ActionRecord; the tables after the call
log_action_rows(log, kind, post_id, ref_id, t, topic, slot, dt, clock) ==
    Append(log, [post_id |-> post_id, kind |-> kind,
                 dt |-> IF dt = NoTime THEN clock ELSE dt,
                 ref_id |-> ref_id, text |-> t, topic |-> topic, slot |-> slot,
                 media |-> 0, status |-> "success"])

\* ... and the fingerprint it stores when a non-empty text is given
log_action_hashes(rows, post_id, t, dt, clock) ==
    IF t # <<>>
    THEN store_text_hash(rows, t, post_id, IF dt = NoTime THEN clock ELSE dt, clock)
    ELSE rows

\* the window counted in hours
Cutoff_Hours(clock, days) == clock - days * 3600

\* cutoff = utcnow() - timedelta(days=days)
Cutoff(clock, days) == clock - days * SecondsPerDay

\* the window filter left out of the query
InWindow_NoCutoff(rows, cutoff) == rows

InWindow(rows, cutoff) == {r \in rows : r.created_at > cutoff}

RecentLimit == 200

\* SELECT ... WHERE created_at > cutoff ORDER BY created_at DESC LIMIT 200:
\* every result the query can give (rows of equal created_at come in any order)
recent_texts(rows, cutoff) ==
    LET W == InWindow(rows, cutoff)
    IN  IF Cardinality(W) <= RecentLimit THEN {W}
        ELSE LET newer(c) == {r \in W : r.created_at > c}
                 c0 == CHOOSE c \in {r.created_at : r \in W} :
                          /\ Cardinality(newer(c)) < RecentLimit
                          /\ Cardinality(newer(c - 1)) >= RecentLimit
                 ties == {r \in W : r.created_at = c0}
             IN  {newer(c0) \cup X :
                    X \in {Y \in SUBSET ties :
                             Cardinality(Y) = RecentLimit - Cardinality(newer(c0))}}

\* the threshold comparison made strict (j > jaccard_threshold)
JaccardAtLeast_Strict(a, b, thr) ==
    LET inter == Cardinality(a \cap b)
        union == Cardinality(a \cup b)
    IN  inter * thr[2] > thr[1] * (IF union > 1 THEN union ELSE 1)

\* j >= jaccard_threshold for j = inter / max(1, union), threshold num / den
JaccardAtLeast(a, b, thr) ==
    LET inter == Cardinality(a \cap b)
        union == Cardinality(a \cup b)
    IN  inter * thr[2] >= thr[1] * (IF union > 1 THEN union ELSE 1)

\* the near-duplicate loop over the selected rows
jaccard_match(tokens, recent, thr) ==
    \E r \in recent :
        LET rtokens == token_set(r.text_norm)
        IN  rtokens # {} /\ JaccardAtLeast(tokens, rtokens, thr)

\* the exact check looking up the digest of the normalised text
hash_match_OnNormalized(rows, t, cutoff) ==
    \E r \in rows : r.text_hash = sha256(normalize_text(t)) /\ r.created_at > cutoff

\* the exact check: SELECT 1 ... WHERE text_hash = ? AND created_at > cutoff
hash_match(rows, t, cutoff) ==
    \E r \in rows : r.text_hash = sha256(t) /\ r.created_at > cutoff

\* Storage.is_text_duplicate, given the rows the second query returned
is_text_duplicate(rows, t, days, thr, clock, recent) ==
    LET cutoff == Cutoff(clock, days)
    IN  IF hash_match(rows, t, cutoff) THEN TRUE
        ELSE jaccard_match(token_set(normalize_text(t)), recent, thr)

\* the lookup that finds no record
already_acted_Never(log, post_id, kind) == FALSE

\* Storage.already_acted
already_acted(log, post_id, kind) ==
    \E i \in 1..Len(log) : log[i].post_id = post_id /\ log[i].kind = kind

StoreEmpty ==
    /\ actions = <<>>
    /\ text_hashes = {}
    /\ dup_ret = NoRet

RateIdle ==
    /\ frac = 0
    /\ limits = <<>>
    /\ rl_ret = NoRet

LearnIdle ==
    /\ bandit = {}
    /\ metrics = {}
    /\ learn = NoRet
    /\ engagement = <<>>
    /\ slot_ret = NoRet

RetryIdle ==
    /\ backoff = NoRet
    /\ request = NoRet

\* the agent process is not running
NoPost == [id |-> NoneVal, author_id |-> NoneVal]

NoCfg == [mode |-> NoneVal]

NoLoc ==
    [slot |-> NoneVal, topic |-> NoneVal, text |-> <<>>, post_id |-> NoneVal,
     me_user_id |-> NoneVal, limits |-> <<>>, qi |-> 0, remaining |-> <<>>,
     posts |-> <<>>, post |-> NoPost, acts |-> <<>>, reply_text |-> <<>>]

Snapshot == [actions |-> actions, text_hashes |-> text_hashes,
             usage_monthly |-> usage_monthly]

NoSnap == [actions |-> <<>>, text_hashes |-> {}, usage_monthly |-> <<>>]

SchedIdle ==
    /\ pc = "idle"
    /\ cfg = NoCfg
    /\ loc = NoLoc
    /\ api_calls = <<>>
    /\ post_trace = <<>>
    /\ post_snap = NoSnap
    /\ run_snap = NoSnap
    /\ passes = 0

\* usage rows a store can hold when a manager is built on it
NearCap(soft, cap) == {c \in {0, soft - 1, soft, cap - 1, cap} : c >= 0}

BudgetInit ==
    /\ now = 0
    /\ period = 1
    /\ \E plan \in Plans, pct \in BufferPcts,
          cr \in {0, CustomCap}, cw \in {0, CustomCap} :
          budget_mgr = BudgetManager(plan, pct, cr, cw)
    /\ \E r \in NearCap(budget_mgr.soft_read_cap, budget_mgr.read_cap),
          w \in NearCap(budget_mgr.soft_write_cap, budget_mgr.write_cap) :
          usage_monthly \in
            { <<>>, (1 :> [create_count |-> w, read_count |-> r]) }
    /\ budget_ret = NoRet
    /\ budget_ops = 0
    /\ StoreEmpty
    /\ RateIdle
    /\ RetryIdle
    /\ LearnIdle
    /\ SchedIdle

CanRead(n) ==
    /\ budget_ret = NoRet
    /\ budget_ret' = [op |-> "can_read", n |-> n,
                      used |-> get_monthly_usage(usage_monthly, period).read_count,
                      before |-> usage_monthly,
                      ret |-> can_read(budget_mgr, usage_monthly, period, n)]
    /\ UNCHANGED <<now, period, usage_monthly, budget_mgr, budget_ops>>
    /\ UNCHANGED budgetRest

CanWrite(n) ==
    /\ budget_ret = NoRet
    /\ budget_ret' = [op |-> "can_write", n |-> n,
                      used |-> get_monthly_usage(usage_monthly, period).create_count,
                      before |-> usage_monthly,
                      ret |-> can_write(budget_mgr, usage_monthly, period, n)]
    /\ UNCHANGED <<now, period, usage_monthly, budget_mgr, budget_ops>>
    /\ UNCHANGED budgetRest

\* the caller has taken the returned pair
BudgetReturn ==
    /\ budget_ret # NoRet
    /\ budget_ret' = NoRet
    /\ UNCHANGED <<now, period, usage_monthly, budget_mgr, budget_ops>>
    /\ UNCHANGED budgetRest

AddReads(n) ==
    /\ budget_ret = NoRet
    /\ budget_ops < MaxOps
    /\ budget_ops' = budget_ops + 1
    /\ usage_monthly' = add_reads(usage_monthly, period, n)
    /\ UNCHANGED <<now, period, budget_mgr, budget_ret>>
    /\ UNCHANGED budgetRest

AddWrites(n) ==
    /\ budget_ret = NoRet
    /\ budget_ops < MaxOps
    /\ budget_ops' = budget_ops + 1
    /\ usage_monthly' = add_writes(usage_monthly, period, n)
    /\ UNCHANGED <<now, period, budget_mgr, budget_ret>>
    /\ UNCHANGED budgetRest

\* the UTC month changes: _current_period() yields the next key
MonthRollover ==
    /\ budget_ret = NoRet
    /\ period < MaxPeriod
    /\ period' = period + 1
    /\ UNCHANGED <<now, usage_monthly, budget_mgr, budget_ret, budget_ops>>
    /\ UNCHANGED budgetRest

BudgetNext ==
    \/ \E n \in 1..MaxCount : CanRead(n)
    \/ \E n \in 1..MaxCount : CanWrite(n)
    \/ \E n \in 1..MaxCount : AddReads(n)
    \/ \E n \in 1..MaxCount : AddWrites(n)
    \/ BudgetReturn
    \/ MonthRollover

SpecBudget == BudgetInit /\ [][BudgetNext]_vars

\* caps that apply to the call recorded in budget_ret
RetHardCap ==
    IF budget_ret.op = "can_read" THEN budget_mgr.read_cap ELSE budget_mgr.write_cap

RetSoftCap == SoftCap(RetHardCap, budget_mgr.buffer_pct)

RetTotal == budget_ret.used + budget_ret.n

\* C1: can_read(n) / can_write(n) allow exactly when usage + n <= soft cap,
\* with soft cap = int(hard cap * (1 - buffer)); above the hard cap they refuse
\* with "Hard cap exceeded", between the caps with "Soft cap exceeded"; the
\* stored usage is the same after the check as before it.
C1_AdmissionCheck ==
    budget_ret # NoRet =>
        /\ (budget_ret.ret[1] = TRUE) <=> (RetTotal <= RetSoftCap)
        /\ RetTotal > RetHardCap => budget_ret.ret = <<FALSE, "Hard cap exceeded">>
        /\ (RetSoftCap < RetTotal /\ RetTotal <= RetHardCap)
              => budget_ret.ret = <<FALSE, "Soft cap exceeded">>
        /\ usage_monthly = budget_ret.before

\* a can_write refused between the soft and the hard cap
C1_Witness ==
    /\ budget_ret # NoRet
    /\ budget_ret.op = "can_write"
    /\ RetSoftCap < RetTotal
    /\ RetTotal <= RetHardCap
    /\ budget_ret.ret = <<FALSE, "Soft cap exceeded">>

(***************************************************************************)
(* rate_limiter.py                                                         *)
(***************************************************************************)
\* time.time(), in milliseconds
TimeMs == now * 1000 + frac

\* no wait computed (None)
NoWait == -1

DefaultMinRemaining == 5

\* headers.get(k): the value, or None when the header is absent
NoHeader == -1

HeaderGet(headers, k) == IF k \in DOMAIN headers THEN headers[k] ELSE NoHeader

\* headers.get(lower) or headers.get(Title)
HeaderEither(headers, lo, hi) ==
    IF HeaderGet(headers, lo) # NoHeader THEN HeaderGet(headers, lo)
    ELSE HeaderGet(headers, hi)

\* RateLimiter.update_from_headers: overwrite the window when all three are there
update_from_headers(lim, endpoint, headers, t) ==
    LET limit == HeaderEither(headers, "x-rate-limit-limit", "X-Rate-Limit-Limit")
        remaining == HeaderEither(headers, "x-rate-limit-remaining", "X-Rate-Limit-Remaining")
        reset == HeaderEither(headers, "x-rate-limit-reset", "X-Rate-Limit-Reset")
        info == [limit |-> limit, remaining |-> remaining, reset |-> reset,
                 updated_at |-> t]
    IN  IF limit # NoHeader /\ remaining # NoHeader /\ reset # NoHeader
        THEN [e \in DOMAIN lim \cup {endpoint} |-> IF e = endpoint THEN info ELSE lim[e]]
        ELSE lim

\* can_call with the threshold test off by one (<= for <)
can_call_AtThreshold(lim, endpoint, min_remaining, t) ==
    IF endpoint \notin DOMAIN lim THEN <<TRUE, NoWait>>
    ELSE IF lim[endpoint].remaining <= min_remaining
         THEN LET d == lim[endpoint].reset * 1000 - t
              IN  <<FALSE, (IF d > 0 THEN d ELSE 0) \div 1000>>
         ELSE <<TRUE, NoWait>>

\* RateLimiter.can_call at time t (ms): (can_call, seconds_to_wait)
can_call(lim, endpoint, min_remaining, t) ==
    IF endpoint \notin DOMAIN lim THEN <<TRUE, NoWait>>
    ELSE IF lim[endpoint].remaining < min_remaining
         THEN LET d == lim[endpoint].reset * 1000 - t
              IN  <<FALSE, (IF d > 0 THEN d ELSE 0) \div 1000>>
         ELSE <<TRUE, NoWait>>

\* RateLimiter.wait_if_needed: the seconds it sleeps (0: it does not sleep);
\* `not can_call and wait_seconds` is false for wait_seconds None and for 0
wait_if_needed(lim, endpoint, min_remaining, t) ==
    LET r == can_call(lim, endpoint, min_remaining, t)
    IN  IF ~r[1] /\ r[2] # NoWait /\ r[2] # 0 THEN r[2] + 1 ELSE 0

(***************************************************************************)
(* The rate limiter exercised on its own.                                  *)
(***************************************************************************)
RateStart == 100

Endpoints == {"search", "like"}

\* response headers seen at the current time: lower-case or title-case names,
\* complete or lacking the reset field
HeaderSamples ==
    UNION {
        { ("x-rate-limit-limit" :> 100) @@ ("x-rate-limit-remaining" :> rem)
            @@ ("x-rate-limit-reset" :> rst),
          ("X-Rate-Limit-Limit" :> 100) @@ ("X-Rate-Limit-Remaining" :> rem)
            @@ ("X-Rate-Limit-Reset" :> rst),
          ("x-rate-limit-limit" :> 100) @@ ("x-rate-limit-remaining" :> rem) } :
        rem \in {0, 5}, rst \in {now - 1, now + 2} }

MinRemainingChoices == {1, DefaultMinRemaining}

RateInit ==
    /\ now = RateStart
    /\ period = 1
    /\ usage_monthly = <<>>
    /\ budget_mgr = BudgetManager("free", DefaultBufferPct, 0, 0)
    /\ budget_ret = NoRet
    /\ budget_ops = 0
    /\ StoreEmpty
    /\ RateIdle
    /\ RetryIdle
    /\ LearnIdle
    /\ SchedIdle

UpdateFromHeaders(endpoint, headers) ==
    /\ rl_ret = NoRet
    /\ now < RateStart + MaxRateSecs
    /\ limits' = update_from_headers(limits, endpoint, headers, TimeMs)
    /\ UNCHANGED <<now, frac, rl_ret>>
    /\ UNCHANGED rateRest

CanCall(endpoint, min_remaining) ==
    /\ rl_ret = NoRet
    /\ rl_ret' = [op |-> "can_call", endpoint |-> endpoint,
                  min_remaining |-> min_remaining, at |-> TimeMs,
                  before |-> limits, slept |-> 0,
                  ret |-> can_call(limits, endpoint, min_remaining, TimeMs)]
    /\ UNCHANGED <<now, frac, limits>>
    /\ UNCHANGED rateRest

\* time.sleep blocks the caller: the clock has moved on when the call returns
WaitIfNeeded(endpoint, min_remaining) ==
    /\ rl_ret = NoRet
    /\ LET secs == wait_if_needed(limits, endpoint, min_remaining, TimeMs)
       IN  /\ rl_ret' = [op |-> "wait_if_needed", endpoint |-> endpoint,
                         min_remaining |-> min_remaining, at |-> TimeMs,
                         before |-> limits, slept |-> secs,
                         ret |-> can_call(limits, endpoint, min_remaining, TimeMs)]
           /\ now' = now + secs
    /\ UNCHANGED <<frac, limits>>
    /\ UNCHANGED rateRest

RateReturn ==
    /\ rl_ret # NoRet
    /\ rl_ret' = NoRet
    /\ UNCHANGED <<now, frac, limits>>
    /\ UNCHANGED rateRest

\* half a second goes by
HalfSecond ==
    /\ rl_ret = NoRet
    /\ now < RateStart + MaxRateSecs
    /\ now' = (TimeMs + 500) \div 1000
    /\ frac' = (TimeMs + 500) % 1000
    /\ UNCHANGED <<limits, rl_ret>>
    /\ UNCHANGED rateRest

RateNext ==
    \/ \E e \in Endpoints, h \in HeaderSamples : UpdateFromHeaders(e, h)
    \/ \E e \in Endpoints, m \in MinRemainingChoices : CanCall(e, m)
    \/ \E e \in Endpoints, m \in MinRemainingChoices : WaitIfNeeded(e, m)
    \/ RateReturn
    \/ HalfSecond

SpecRate == RateInit /\ [][RateNext]_vars

\* the window the recorded call looked at
RetTracked == rl_ret.endpoint \in DOMAIN limits

RetInfo == limits[rl_ret.endpoint]

\* max(0, reset - now) in milliseconds, at the time of the recorded call
RetGapMs ==
    IF RetInfo.reset * 1000 > rl_ret.at THEN RetInfo.reset * 1000 - rl_ret.at ELSE 0

\* C8 as stated: whenever can_call is not allowed, wait_if_needed blocks the
\* caller for wait_seconds + 1 seconds, also when wait_seconds is 0.
C8_AlwaysWaitsWhenRefused ==
    (rl_ret # NoRet /\ rl_ret.op = "wait_if_needed" /\ rl_ret.ret[1] = FALSE)
        => rl_ret.slept = rl_ret.ret[2] + 1

\* C9: can_call returns (True, None) iff the endpoint is untracked or its
\* remaining is at least min_remaining; otherwise (False, w) with w the whole
\* seconds of max(0, reset - now); the tracked windows are left as they were.
C9_CanCall ==
    (rl_ret # NoRet /\ rl_ret.op = "can_call") =>
        /\ (rl_ret.ret = <<TRUE, NoWait>>)
              <=> (~RetTracked \/ RetInfo.remaining >= rl_ret.min_remaining)
        /\ rl_ret.ret # <<TRUE, NoWait>> =>
              /\ rl_ret.ret[1] = FALSE
              /\ rl_ret.ret[2] >= 0
              /\ rl_ret.ret[2] * 1000 <= RetGapMs
              /\ RetGapMs < (rl_ret.ret[2] + 1) * 1000
        /\ limits = rl_ret.before

\* refused with a wait of one whole second cut from a second and a half
C9_Witness ==
    /\ rl_ret # NoRet
    /\ rl_ret.op = "can_call"
    /\ rl_ret.ret = <<FALSE, 1>>
    /\ RetGapMs = 1500

(***************************************************************************)
(* The deduplication index exercised on its own: fingerprints are stored   *)
(* (directly and through log_action), time passes, is_text_duplicate is    *)
(* called.                                                                 *)
(***************************************************************************)
T_empty == <<>>
T_blank == <<" ">>
T_nine == <<"a", " ", "b", " ", "c", " ", "d", " ", "e", " ", "f", " ", "g", " ", "h", " ", "i">>
T_ten == <<"A", " ", " ", "b", " ", "c", " ", "d", " ", "e", " ", "f", " ", "g", " ", "h", " ", "i", " ", "j">>

SampleTexts == {T_blank, T_nine, T_ten}

DigitChars == <<"0", "1", "2", "3", "4", "5", "6", "7", "8", "9">>

\* the i-th of a series of unrelated one-word texts, "x000", "x001", ...
Filler(i) ==
    <<"x", DigitChars[((i \div 100) % 10) + 1], DigitChars[((i \div 10) % 10) + 1],
      DigitChars[(i % 10) + 1]>>

StartTime == 10 * SecondsPerDay

\* an older record written with an explicit dt, behind the series above
BackfillLag == 1000

\* a store that already holds k fingerprints, one per second up to StartTime - 1
FillerRows(k) ==
    {[text_hash |-> sha256(Filler(i)), post_id |-> NoneVal, text |-> Filler(i),
      text_norm |-> normalize_text(Filler(i)), created_at |-> StartTime - i] :
        i \in 1..k}

IsFiller(r) == r.text # <<>> /\ r.text[1] = "x"

DtChoices == {NoTime, now - BackfillLag}

DayChoices == {1, 7}

\* jaccard_threshold values: 0 and the default 0.9
DefaultThreshold == <<9, 10>>

ThresholdChoices == {<<0, 1>>, DefaultThreshold}

DedupInit ==
    /\ now = StartTime
    /\ period = 1
    /\ usage_monthly = <<>>
    /\ budget_mgr = BudgetManager("free", DefaultBufferPct, 0, 0)
    /\ budget_ret = NoRet
    /\ budget_ops = 0
    /\ actions = <<>>
    /\ \E k \in {0, MaxFiller - 1, MaxFiller} : text_hashes = FillerRows(k)
    /\ dup_ret = NoRet
    /\ RateIdle
    /\ RetryIdle
    /\ LearnIdle
    /\ SchedIdle

RoomFor(t) ==
    \/ \E r \in text_hashes : r.text_hash = sha256(t)
    \/ Cardinality({r \in text_hashes : ~IsFiller(r)}) < MaxStored

StoreTextHash(t, dt) ==
    /\ dup_ret = NoRet
    /\ RoomFor(t)
    /\ text_hashes' = store_text_hash(text_hashes, t, NoneVal, dt, now)
    /\ UNCHANGED <<now, actions, dup_ret>>
    /\ UNCHANGED storeRest

LogAction(kind, post_id, t, dt) ==
    /\ dup_ret = NoRet
    /\ RoomFor(t)
    /\ Len(actions) < MaxLog
    /\ actions' = log_action_rows(actions, kind, post_id, NoneVal, t,
                                  NoneVal, NoneVal, dt, now)
    /\ text_hashes' = log_action_hashes(text_hashes, post_id, t, dt, now)
    /\ UNCHANGED <<now, dup_ret>>
    /\ UNCHANGED storeRest

IsTextDuplicate(t, days, thr) ==
    /\ dup_ret = NoRet
    /\ \E recent \in recent_texts(text_hashes, Cutoff(now, days)) :
          dup_ret' = [op |-> "is_text_duplicate", text |-> t, days |-> days,
                      thr |-> thr,
                      ret |-> is_text_duplicate(text_hashes, t, days, thr, now, recent)]
    /\ UNCHANGED <<now, actions, text_hashes>>
    /\ UNCHANGED storeRest

DedupReturn ==
    /\ dup_ret # NoRet
    /\ dup_ret' = NoRet
    /\ UNCHANGED <<now, actions, text_hashes>>
    /\ UNCHANGED storeRest

AdvanceDay ==
    /\ dup_ret = NoRet
    /\ now < StartTime + MaxAdvance * SecondsPerDay
    /\ now' = now + SecondsPerDay
    /\ UNCHANGED <<actions, text_hashes, dup_ret>>
    /\ UNCHANGED storeRest

DedupNext ==
    \/ \E t \in SampleTexts, dt \in DtChoices : StoreTextHash(t, dt)
    \/ \E t \in {T_empty, T_nine} : LogAction("post", "p1", t, NoTime)
    \/ \E t \in SampleTexts, days \in DayChoices, thr \in ThresholdChoices :
          IsTextDuplicate(t, days, thr)
    \/ DedupReturn
    \/ AdvanceDay

SpecDedup == DedupInit /\ [][DedupNext]_vars

\* the call recorded in dup_ret
DupCutoff == Cutoff(now, dup_ret.days)

DupTokens == token_set(normalize_text(dup_ret.text))

DupWindow == InWindow(text_hashes, DupCutoff)

\* token-set Jaccard similarity |a \cap b| / |a \cup b| is defined and is at
\* least thr = <<num, den>>
Similar(a, b, thr) ==
    /\ a \cup b # {}
    /\ Cardinality(a \cap b) * thr[2] >= thr[1] * Cardinality(a \cup b)

\* rows stored after r, or at the same second
NotOlderThan(r, rows) == {q \in rows : q # r /\ q.created_at >= r.created_at}

\* r is returned by the LIMIT 200 query whatever the order among equal times
AmongMostRecent(r, rows) == Cardinality(NotOlderThan(r, rows)) < RecentLimit

\* C5: a text whose fingerprint lies inside the trailing window is reported as
\* a duplicate, however many other fingerprints the table holds.
C5_ExactMatchInWindow ==
    dup_ret # NoRet =>
        \A r \in text_hashes :
            (r.text = dup_ret.text /\ r.created_at > DupCutoff) => dup_ret.ret = TRUE

\* the text was stored behind 200 newer fingerprints and is still found
C5_Witness ==
    /\ dup_ret # NoRet
    /\ dup_ret.ret = TRUE
    /\ \E r \in text_hashes :
          /\ r.text = dup_ret.text
          /\ r.created_at > DupCutoff
          /\ Cardinality(NotOlderThan(r, InWindow(text_hashes, DupCutoff))) >= RecentLimit

\* C6 as stated: every fingerprint in the window whose Jaccard similarity with
\* the candidate reaches the threshold makes the result true, for any number of
\* fingerprints in the window; with no match in the window the result is false.
\* (Taken here for fingerprints that have tokens; those without are C7's.)
C6_AnyNumberOfFingerprints ==
    dup_ret # NoRet =>
        LET toks == DupTokens
            W == DupWindow
            h == sha256(dup_ret.text)
            near(r) == LET rt == token_set(r.text_norm)
                       IN  rt # {} /\ Similar(toks, rt, dup_ret.thr)
        IN  /\ dup_ret.ret = TRUE \/ \A r \in W : ~near(r)
            /\ dup_ret.ret = FALSE \/ \E r \in W : r.text_hash = h \/ near(r)

\* C6 amended: the same for every fingerprint with a non-empty token set that
\* is among the 200 most recent of the window.
C6_AmongMostRecent ==
    dup_ret # NoRet =>
        LET toks == DupTokens
            W == DupWindow
            h == sha256(dup_ret.text)
            near(r) == LET rt == token_set(r.text_norm)
                       IN  rt # {} /\ Similar(toks, rt, dup_ret.thr)
        IN  /\ dup_ret.ret = TRUE \/ \A r \in W : ~(near(r) /\ AmongMostRecent(r, W))
            /\ dup_ret.ret = FALSE \/ \E r \in W : r.text_hash = h \/ near(r)

\* nine of ten tokens shared, threshold 0.9: a near-duplicate at the boundary
C6_Witness ==
    /\ dup_ret # NoRet
    /\ dup_ret.text = T_ten
    /\ dup_ret.thr = DefaultThreshold
    /\ dup_ret.ret = TRUE
    /\ \E r \in InWindow(text_hashes, DupCutoff) : r.text = T_nine
    /\ \A r \in text_hashes : r.text # T_ten

\* C7: a true result is always owed to a fingerprint that is not older than
\* now - days and that matches by hash or, having a non-empty token set, by
\* Jaccard similarity.
C7_BoundedByWindow ==
    (dup_ret # NoRet /\ dup_ret.ret = TRUE) =>
        LET toks == DupTokens
            h == sha256(dup_ret.text)
            cutoff == DupCutoff
        IN  \E r \in text_hashes :
                /\ r.created_at >= cutoff
                /\ \/ r.text_hash = h
                   \/ LET rt == token_set(r.text_norm)
                      IN  rt # {} /\ Similar(toks, rt, dup_ret.thr)

\* the same text was stored before the window began and is not reported
C7_Witness ==
    /\ dup_ret # NoRet
    /\ dup_ret.ret = FALSE
    /\ \E r \in text_hashes : r.text = dup_ret.text /\ r.created_at < DupCutoff

(***************************************************************************)
(* scheduler.py, actions.py, x_client.py: runs of the agent process        *)
(* (main.py "run"), each one scheduler cycle over the persistent store.    *)
(***************************************************************************)
MaxPosts == 2

Modes == {"post", "interact", "both"}

Topics == {"automation", "ai"}

Windows == {"morning"}

Tpl_a1 == <<"a", "1">>

Tpl_a2 == <<"a", "2">>

Tpl_i1 == <<"i", "1">>

\* actions.TEMPLATES: the candidate texts of each topic
TEMPLATES ==
    [t \in Topics |-> IF t = "automation" THEN {Tpl_a1, Tpl_a2} ELSE {Tpl_i1}]

\* actions.REPLY_TEMPLATES
REPLY_TEMPLATES == {<<"r", "1">>}

\* actions.choose_template: the texts random.choice can return
choose_template(topic) == TEMPLATES[topic]

\* actions.helpful_reply: the texts random.choice can return
helpful_reply == REPLY_TEMPLATES

\* the kinds act_on_search appends to its action list, in that order
ActionOrder == <<"reply", "like", "follow", "repost">>

Kinds == {ActionOrder[i] : i \in 1..Len(ActionOrder)}

\* config["max_per_window"]
MaxPerWindowChoices == {[k \in Kinds |-> 1]}

\* config["queries"]
Queries == <<"q1">>

FlagChoices == {"auto", "off"}

MeId == "me"

TweetIds == <<"t1", "t2", "t3", "t4">>

AuthorIds == <<"u1", MeId, "", "u1">>

\* the write endpoints of XClient
WriteCalls == {"create_post", "like_post", "follow_user", "retweet"}

\* one Social API call as the history records it
ApiCall(name, path, target, ok, results) ==
    [call |-> name, path |-> path, target |-> target, ok |-> ok, results |-> results,
     writes_before |-> get_monthly_usage(usage_monthly, period).create_count]

\* the store a run can find: usage around the soft write cap of the plan, a
\* fingerprint of an earlier post and an earlier like
SchedInit ==
    /\ now = StartTime
    /\ period = 1
    /\ budget_mgr = BudgetManager("free", DefaultBufferPct, 0, 0)
    /\ \E w \in {budget_mgr.soft_write_cap - 1, budget_mgr.soft_write_cap} :
          usage_monthly = (1 :> [create_count |-> w, read_count |-> 0])
    /\ budget_ret = NoRet
    /\ budget_ops = 0
    /\ actions \in
          { <<>>, log_action_rows(<<>>, "like", TweetIds[1], NoneVal, <<>>, NoneVal,
                                  NoneVal, NoTime, StartTime - SecondsPerDay) }
    /\ text_hashes \in
          { {}, store_text_hash({}, Tpl_a1, "p0", NoTime, StartTime - SecondsPerDay) }
    /\ dup_ret = NoRet
    /\ RateIdle
    /\ RetryIdle
    /\ LearnIdle
    /\ SchedIdle

\* main.py "run": load the config, build client and storage, call run_scheduler
StartRun(mode, dry_run, mpw, likes, follows) ==
    /\ pc = "idle"
    /\ passes' = passes + 1
    /\ cfg' = [mode |-> mode, dry_run |-> dry_run, client_dry |-> dry_run,
               plan |-> "free", queries |-> Queries, max_per_window |-> mpw,
               allow_likes |-> likes, allow_follows |-> follows]
    /\ pc' = "run_scheduler"
    /\ run_snap' = Snapshot
    /\ UNCHANGED <<now, budgetVars, storeVars, rateVars, retryVars, learnVars, loc, api_calls,
                   post_trace, post_snap>>

\* run_scheduler up to the dispatch on mode
RunScheduler(on_weekday) ==
    /\ pc = "run_scheduler"
    /\ IF ~on_weekday /\ ~cfg.dry_run
       THEN pc' = "done" /\ UNCHANGED post_snap
       ELSE IF cfg.mode \in {"post", "both"}
            THEN pc' = "run_post_action" /\ post_snap' = Snapshot
            ELSE pc' = "run_interact_actions" /\ UNCHANGED post_snap
    /\ UNCHANGED <<now, budgetVars, storeVars, rateVars, retryVars, learnVars,
                   passes, cfg, loc, api_calls,
                   post_trace, run_snap>>

\* run_post_action: slot, topic and text
PostChoose(slot, topic, text) ==
    /\ pc = "run_post_action"
    /\ text \in choose_template(topic)
    /\ loc' = [loc EXCEPT !.slot = slot, !.topic = topic, !.text = text]
    /\ pc' = "post_dedup"
    /\ UNCHANGED <<now, budgetVars, storeVars, rateVars, retryVars, learnVars,
                   passes, cfg, api_calls,
                   post_trace, post_snap, run_snap>>

\* a dry run that goes on to the budget check and the post
PostDedup_DryPosts ==
    /\ pc = "post_dedup"
    /\ \E recent \in recent_texts(text_hashes, Cutoff(now, 7)) :
          IF is_text_duplicate(text_hashes, loc.text, 7, DefaultThreshold, now, recent)
          THEN /\ post_trace' = Append(post_trace, "duplicate")
               /\ pc' = "post_return"
          ELSE /\ post_trace' = Append(post_trace, "not_duplicate")
               /\ pc' = "post_budget"
    /\ UNCHANGED <<now, budgetVars, storeVars, rateVars, retryVars, learnVars,
                   passes, cfg, loc, api_calls, post_snap, run_snap>>

\* run_post_action: the duplicate check and the dry-run branch
PostDedup ==
    /\ pc = "post_dedup"
    /\ \E recent \in recent_texts(text_hashes, Cutoff(now, 7)) :
          IF is_text_duplicate(text_hashes, loc.text, 7, DefaultThreshold, now, recent)
          THEN /\ post_trace' = Append(post_trace, "duplicate")
               /\ pc' = "post_return"
               /\ UNCHANGED loc
          ELSE IF cfg.dry_run
               THEN /\ post_trace' = post_trace \o <<"not_duplicate", "dry_run">>
                    /\ loc' = [loc EXCEPT !.post_id = "dry-run-post"]
                    /\ pc' = "post_return"
               ELSE /\ post_trace' = Append(post_trace, "not_duplicate")
                    /\ pc' = "post_budget"
                    /\ UNCHANGED loc
    /\ UNCHANGED <<now, budgetVars, storeVars, rateVars, retryVars, learnVars,
                   passes, cfg, api_calls,
                   post_snap, run_snap>>

\* the refusal of the budget check not acted upon
PostBudget_IgnoresRefusal ==
    /\ pc = "post_budget"
    /\ budget_mgr' = BudgetManager(cfg.plan, DefaultBufferPct, 0, 0)
    /\ LET ret == can_write(budget_mgr', usage_monthly, period, 1)
       IN  /\ post_trace' = Append(post_trace, IF ret[1] THEN "allowed" ELSE "refused")
           /\ pc' = "post_create"
    /\ UNCHANGED <<now, period, usage_monthly, budget_ret, budget_ops, storeVars,
                   rateVars, retryVars, learnVars, passes, cfg, loc, api_calls, post_snap, run_snap>>

\* run_post_action: build the BudgetManager and ask can_write(1)
PostBudget ==
    /\ pc = "post_budget"
    /\ budget_mgr' = BudgetManager(cfg.plan, DefaultBufferPct, 0, 0)
    /\ LET ret == can_write(budget_mgr', usage_monthly, period, 1)
       IN  IF ret[1]
           THEN /\ post_trace' = Append(post_trace, "allowed")
                /\ pc' = "post_create"
           ELSE /\ post_trace' = Append(post_trace, "refused")
                /\ pc' = "post_return"
    /\ UNCHANGED <<now, period, usage_monthly, budget_ret, budget_ops, storeVars,
                   rateVars, retryVars, learnVars, passes, cfg, loc, api_calls, post_snap, run_snap>>

\* run_post_action: client.create_post(text); an exception ends the run
PostCreate(ok) ==
    /\ pc = "post_create"
    /\ api_calls' = Append(api_calls, ApiCall("create_post", "post", NoneVal, ok, 0))
    /\ post_trace' = Append(post_trace, "create_post")
    /\ IF ok
       THEN loc' = [loc EXCEPT !.post_id = "p1"] /\ pc' = "post_log"
       ELSE pc' = "failed" /\ UNCHANGED loc
    /\ UNCHANGED <<now, budgetVars, storeVars, rateVars, retryVars, learnVars,
                   passes, cfg, post_snap, run_snap>>

\* run_post_action: storage.log_action(kind="post", ...)
PostLog ==
    /\ pc = "post_log"
    /\ actions' = log_action_rows(actions, "post", loc.post_id, NoneVal, loc.text,
                                  loc.topic, loc.slot, NoTime, now)
    /\ text_hashes' = log_action_hashes(text_hashes, loc.post_id, loc.text, NoTime, now)
    /\ post_trace' = Append(post_trace, "log_action")
    /\ pc' = "post_commit"
    /\ UNCHANGED <<now, budgetVars, dup_ret, rateVars, retryVars, learnVars,
                   passes, cfg, loc, api_calls,
                   post_snap, run_snap>>

\* the post counted twice
PostCommit_Twice ==
    /\ pc = "post_commit"
    /\ usage_monthly' = add_writes(usage_monthly, period, 2)
    /\ post_trace' = Append(post_trace, "add_writes")
    /\ pc' = "post_return"
    /\ UNCHANGED <<now, period, budget_mgr, budget_ret, budget_ops, storeVars,
                   rateVars, retryVars, learnVars, passes, cfg, loc, api_calls, post_snap, run_snap>>

\* run_post_action: budget_mgr.add_writes(1)
PostCommit ==
    /\ pc = "post_commit"
    /\ usage_monthly' = add_writes(usage_monthly, period, 1)
    /\ post_trace' = Append(post_trace, "add_writes")
    /\ pc' = "post_return"
    /\ UNCHANGED <<now, period, budget_mgr, budget_ret, budget_ops, storeVars,
                   rateVars, retryVars, learnVars, passes, cfg, loc, api_calls, post_snap, run_snap>>

\* a cycle that ends when the posting step was vetoed
PostReturn_EndsOnVeto ==
    /\ pc = "post_return"
    /\ pc' = IF /\ cfg.mode \in {"interact", "both"}
                /\ post_trace[Len(post_trace)] \notin {"duplicate", "refused"}
             THEN "run_interact_actions" ELSE "done"
    /\ loc' = NoLoc
    /\ UNCHANGED <<now, budgetVars, storeVars, rateVars, retryVars, learnVars, passes, cfg,
                   api_calls, post_trace, post_snap, run_snap>>

\* run_scheduler after run_post_action returned
PostReturn ==
    /\ pc = "post_return"
    /\ pc' = IF cfg.mode \in {"interact", "both"} THEN "run_interact_actions" ELSE "done"
    /\ loc' = NoLoc
    /\ UNCHANGED <<now, budgetVars, storeVars, rateVars, retryVars, learnVars,
                   passes, cfg, api_calls,
                   post_trace, post_snap, run_snap>>

JitterChoices == {8, 20}

\* a post as XClient.search_recent returns it
PostAt(i) == [id |-> TweetIds[i], author_id |-> AuthorIds[i]]

\* random.shuffle: every order of the list
Shuffles(s) ==
    LET n == Len(s)
    IN  {[i \in 1..n |-> s[f[i]]] :
            f \in {g \in [1..n -> 1..n] : \A i, j \in 1..n : g[i] = g[j] => i = j}}

\* the result lists of a search, already shuffled
SearchResults ==
    UNION {Shuffles([i \in 1..Cardinality(S) |->
                        PostAt(CHOOSE k \in S : Cardinality({m \in S : m < k}) = i - 1)]) :
             S \in SUBSET (1..MaxPosts)}

\* dict.get(key, 0)
Get(d, k) == IF k \in DOMAIN d THEN d[k] ELSE 0

\* all(v <= 0 for v in remaining.values())
AllSpent(remaining) == \A k \in DOMAIN remaining : remaining[k] <= 0

\* the XClient method act_on_search calls for an action kind
MethodOf(a) ==
    CASE a = "reply"  -> "create_post"
      [] a = "like"   -> "like_post"
      [] a = "follow" -> "follow_user"
      [] a = "repost" -> "retweet"

\* the key under which act_on_search looks up and logs an action
TargetOf(a, post) == IF a = "follow" THEN post.author_id ELSE post.id

\* the counter left as it was
spend_Nothing(remaining, a) == remaining

\* remaining[a] -= 1
spend(remaining, a) == [remaining EXCEPT ![a] = @ - 1]

\* the test for the agent's own posts left out
is_self_Never(post, me_user_id) == FALSE

\* author_id and str(author_id) == str(me_user_id)
is_self(post, me_user_id) == post.author_id # "" /\ post.author_id = me_user_id

\* run_interact_actions up to the loop over the queries
GetMe(outcome) ==
    /\ pc = "run_interact_actions"
    /\ LET lim == [k \in DOMAIN cfg.max_per_window |->
                     IF \/ k = "like" /\ cfg.allow_likes = "off"
                        \/ k = "follow" /\ cfg.allow_follows = "off"
                     THEN 0 ELSE cfg.max_per_window[k]]
           enter(me) ==
               /\ loc' = [loc EXCEPT !.me_user_id = me, !.limits = lim, !.qi = 1]
               /\ pc' = IF cfg.queries = <<>> THEN "done" ELSE "act_on_search"
       IN  IF cfg.client_dry
           THEN /\ outcome = "ok"
                /\ enter("dummy_user_id")
                /\ UNCHANGED api_calls
           ELSE /\ api_calls' = Append(api_calls,
                        ApiCall("get_me", "interact", NoneVal, outcome # "raise", 0))
                /\ CASE outcome = "ok"    -> enter(MeId)
                     [] outcome = "no_id" -> enter("unknown")
                     [] OTHER             -> pc' = "failed" /\ UNCHANGED loc
    /\ UNCHANGED <<now, budgetVars, storeVars, rateVars, retryVars, learnVars,
                   passes, cfg, post_trace,
                   post_snap, run_snap>>

\* act_on_search: copy the limits, search, shuffle
Search(ok, posts) ==
    /\ pc = "act_on_search"
    /\ IF cfg.client_dry
       THEN /\ ok /\ posts = <<>>
            /\ UNCHANGED api_calls
       ELSE /\ ok \/ posts = <<>>
            /\ api_calls' = Append(api_calls,
                    ApiCall("search_recent", "interact", NoneVal, ok, Len(posts)))
    /\ IF ok
       THEN /\ loc' = [loc EXCEPT !.remaining = loc.limits, !.posts = posts]
            /\ pc' = "for_post"
       ELSE pc' = "failed" /\ UNCHANGED loc
    /\ UNCHANGED <<now, budgetVars, storeVars, rateVars, retryVars, learnVars,
                   passes, cfg, post_trace,
                   post_snap, run_snap>>

\* act_on_search: head of the loop over the posts; the return to the loop
\* over the queries when it ends
ForPost ==
    /\ pc = "for_post"
    /\ IF loc.posts = <<>> \/ AllSpent(loc.remaining)
       THEN /\ loc' = [loc EXCEPT !.qi = loc.qi + 1, !.posts = <<>>]
            /\ pc' = IF loc.qi + 1 > Len(cfg.queries) THEN "done" ELSE "act_on_search"
       ELSE LET p == Head(loc.posts)
                enabled == SelectSeq(ActionOrder, LAMBDA a : Get(loc.remaining, a) > 0)
            IN  IF is_self(p, loc.me_user_id)
                THEN /\ loc' = [loc EXCEPT !.posts = Tail(loc.posts)]
                     /\ pc' = "for_post"
                ELSE /\ \E acts \in Shuffles(enabled) :
                           loc' = [loc EXCEPT !.posts = Tail(loc.posts),
                                              !.post = p, !.acts = acts]
                     /\ pc' = "for_action"
    /\ UNCHANGED <<now, budgetVars, storeVars, rateVars, retryVars, learnVars,
                   passes, cfg, api_calls,
                   post_trace, post_snap, run_snap>>

\* act_on_search: one turn of the loop over the actions, up to the API call
ForAction(reply_text, jitter) ==
    /\ pc = "for_action"
    /\ IF loc.acts = <<>>
       THEN pc' = "for_post" /\ UNCHANGED <<loc, now, api_calls>>
       ELSE LET a == Head(loc.acts)
                skip == \/ Get(loc.remaining, a) <= 0
                        \/ a = "follow" /\ loc.post.author_id = ""
                        \/ already_acted(actions, TargetOf(a, loc.post), a)
            IN  IF skip
                THEN /\ loc' = [loc EXCEPT !.acts = Tail(loc.acts)]
                     /\ pc' = "for_action"
                     /\ UNCHANGED <<now, api_calls>>
                ELSE IF cfg.dry_run
                     THEN /\ loc' = [loc EXCEPT !.acts = Tail(loc.acts),
                                                !.remaining = spend(@, a)]
                          /\ api_calls' = Append(api_calls,
                                 ApiCall(MethodOf(a), "simulated",
                                         TargetOf(a, loc.post), TRUE, 0))
                          /\ now' = now + jitter
                          /\ pc' = "for_action"
                     ELSE /\ loc' = [loc EXCEPT !.reply_text =
                                        IF a = "reply" THEN reply_text ELSE <<>>]
                          /\ pc' = "act_call"
                          /\ UNCHANGED <<now, api_calls>>
    /\ UNCHANGED <<budgetVars, storeVars, rateVars, retryVars, learnVars, passes, cfg, post_trace,
                   post_snap, run_snap>>

\* the record of the action written in one step with the call
ActCall_Logged(ok) ==
    /\ pc = "act_call"
    /\ LET a == Head(loc.acts)
       IN  /\ api_calls' = Append(api_calls,
                  ApiCall(MethodOf(a), "interact", TargetOf(a, loc.post), ok, 0))
           /\ actions' = IF ok
                         THEN log_action_rows(actions, a, TargetOf(a, loc.post), NoneVal,
                                              <<>>, NoneVal, NoneVal, NoTime, now)
                         ELSE actions
    /\ pc' = IF ok THEN "act_log" ELSE "failed"
    /\ UNCHANGED <<now, budgetVars, text_hashes, dup_ret, rateVars, retryVars, learnVars,
                   passes, cfg, loc, post_trace,
                   post_snap, run_snap>>

\* act_on_search: the client call of the action; an exception ends the run
ActCall(ok) ==
    /\ pc = "act_call"
    /\ LET a == Head(loc.acts)
       IN  api_calls' = Append(api_calls,
               ApiCall(MethodOf(a), "interact", TargetOf(a, loc.post), ok, 0))
    /\ pc' = IF ok THEN "act_log" ELSE "failed"
    /\ UNCHANGED <<now, budgetVars, storeVars, rateVars, retryVars, learnVars,
                   passes, cfg, loc, post_trace,
                   post_snap, run_snap>>

\* the action logged and counted with no sleep after it
ActLog_NoSleep(jitter) ==
    /\ pc = "act_log"
    /\ LET a == Head(loc.acts)
           target == TargetOf(a, loc.post)
       IN  /\ actions' = log_action_rows(actions, a, target,
                             IF a = "reply" THEN "r1" ELSE NoneVal,
                             loc.reply_text, NoneVal, NoneVal, NoTime, now)
           /\ text_hashes' = log_action_hashes(text_hashes, target, loc.reply_text,
                                               NoTime, now)
           /\ loc' = [loc EXCEPT !.acts = Tail(loc.acts), !.remaining = spend(@, a)]
    /\ pc' = "for_action"
    /\ UNCHANGED <<now, budgetVars, dup_ret, rateVars, retryVars, learnVars,
                   passes, cfg, api_calls, post_trace,
                   post_snap, run_snap>>

\* act_on_search: log_action, the counter and the jitter sleep
ActLog(jitter) ==
    /\ pc = "act_log"
    /\ LET a == Head(loc.acts)
           target == TargetOf(a, loc.post)
       IN  /\ actions' = log_action_rows(actions, a, target,
                             IF a = "reply" THEN "r1" ELSE NoneVal,
                             loc.reply_text, NoneVal, NoneVal, NoTime, now)
           /\ text_hashes' = log_action_hashes(text_hashes, target, loc.reply_text,
                                               NoTime, now)
           /\ loc' = [loc EXCEPT !.acts = Tail(loc.acts), !.remaining = spend(@, a)]
    /\ now' = now + jitter
    /\ pc' = "for_action"
    /\ UNCHANGED <<budgetVars, dup_ret, rateVars, retryVars, learnVars,
                   passes, cfg, api_calls, post_trace,
                   post_snap, run_snap>>

\* the process ends: run_scheduler returned, or main.py caught the exception
ExitRun ==
    /\ pc \in {"done", "failed"}
    /\ pc' = "exited"
    /\ cfg' = NoCfg
    /\ loc' = NoLoc
    /\ api_calls' = <<>>
    /\ post_trace' = <<>>
    /\ post_snap' = NoSnap
    /\ run_snap' = NoSnap
    /\ UNCHANGED <<now, budgetVars, storeVars, rateVars, retryVars, learnVars, passes>>

Next ==
    \/ \E mode \in Modes, dry_run \in BOOLEAN, mpw \in MaxPerWindowChoices,
          likes \in FlagChoices, follows \in FlagChoices :
          StartRun(mode, dry_run, mpw, likes, follows)
    \/ \E on_weekday \in BOOLEAN : RunScheduler(on_weekday)
    \/ \E slot \in Windows, topic \in Topics :
          \E text \in choose_template(topic) : PostChoose(slot, topic, text)
    \/ PostDedup
    \/ PostBudget
    \/ \E ok \in BOOLEAN : PostCreate(ok)
    \/ PostLog
    \/ PostCommit
    \/ PostReturn
    \/ \E outcome \in {"ok", "no_id", "none_data", "raise"} : GetMe(outcome)
    \/ \E ok \in BOOLEAN, posts \in SearchResults : Search(ok, posts)
    \/ ForPost
    \/ \E reply_text \in REPLY_TEMPLATES, jitter \in JitterChoices :
          ForAction(reply_text, jitter)
    \/ \E ok \in BOOLEAN : ActCall(ok)
    \/ \E jitter \in JitterChoices : ActLog(jitter)
    \/ ExitRun

Spec == SchedInit /\ [][Next]_vars

(***************************************************************************)
(* Properties of a run                                                     *)
(***************************************************************************)
\* the calls of the history that satisfy a condition
CallsWhere(P(_)) == {i \in 1..Len(api_calls) : P(api_calls[i])}

IsWrite(c) == c.call \in WriteCalls /\ c.path # "simulated"

IsPostPathCall(c) == c.path = "post"

IsInteractCall(c) == c.path = "interact"

\* the soft write cap the run's plan and buffer give
RunSoftWriteCap == SoftCap(PLAN_CAPS[cfg.plan].writes, DefaultBufferPct)

\* C2: every write call the agent issues (post, reply, like, follow, repost),
\* on the interaction path as on the posting path, is issued in a state
\* where usage + 1 does not exceed the soft write cap.
C2_WritesWithinBudget ==
    \A i \in CallsWhere(IsWrite) :
        api_calls[i].writes_before + 1 <= RunSoftWriteCap

RECURSIVE SumResults(_)
SumResults(calls) ==
    IF calls = <<>> THEN 0 ELSE Head(calls).results + SumResults(Tail(calls))

\* C3: when a scheduler cycle has completed, the month's create_count has
\* grown by the number of successful write calls of the cycle and read_count
\* by the number of search results it fetched.
C3_UsageCommitted ==
    pc = "done" =>
        LET before == get_monthly_usage(run_snap.usage_monthly, period)
            after == get_monthly_usage(usage_monthly, period)
            writes == Cardinality(CallsWhere(LAMBDA c : IsWrite(c) /\ c.ok))
        IN  /\ after.create_count = before.create_count + writes
            /\ after.read_count = before.read_count + SumResults(api_calls)

\* C4: on the posting path create_post is called at most once per
\* run_post_action, and only as the third step after is_text_duplicate
\* returned false and can_write(1) allowed; no call is made and nothing is
\* persisted before that call, and when the duplicate check vetoes or the
\* budget check refuses, run_post_action returns with no Social API call
\* made, no ActionRecord or fingerprint stored and MonthlyUsage unchanged.
C4_PostingPathOrder ==
    LET creates == {i \in 1..Len(post_trace) : post_trace[i] = "create_post"}
        calls == CallsWhere(IsPostPathCall)
        stopped == /\ pc = "post_return"
                   /\ post_trace # <<>>
                   /\ post_trace[Len(post_trace)] \in {"duplicate", "refused"}
    IN  /\ Cardinality(calls) <= 1
        /\ Cardinality(calls) = Cardinality(creates)
        /\ \A i \in calls : api_calls[i].call = "create_post"
        /\ \A i \in creates :
              /\ i = 3
              /\ post_trace[1] = "not_duplicate"
              /\ post_trace[2] = "allowed"
        /\ (pc \in {"run_post_action", "post_dedup", "post_budget", "post_create"}
               \/ stopped)
              => calls = {} /\ Snapshot = post_snap

\* a refused budget check: run_post_action has returned after the refusal
C4_Witness ==
    /\ pc = "post_return"
    /\ post_trace = <<"not_duplicate", "refused">>
    /\ get_monthly_usage(usage_monthly, period).create_count = RunSoftWriteCap

\* C10: for every Social API call made on the interaction path the rate
\* limiter tracks the endpoint: its window has been updated from the
\* response headers of the call.
C10_RateLimiterGated ==
    \A i \in CallsWhere(LAMBDA c : IsInteractCall(c) /\ c.ok) :
        api_calls[i].call \in DOMAIN limits

(***************************************************************************)
(* rate_limiter.py: backoff_and_retry                                      *)
(***************************************************************************)
MaxRetriesArg == 3

\* RateLimiter.__init__: self.max_retries, self.backoff_base
SelfMaxRetries == 3

BackoffBase == 2

Msg429 == <<"4", "2", "9">>

MsgRateLimit == <<"R", "a", "t", "e", " ", "L", "i", "m", "i", "t">>

MsgInvalid == <<"b", "a", "d">>

MsgBackoffFailed == <<"B", "a", "c", "k", "o", "f", "f">>

\* what one invocation of func can do: return, or raise with a message
FnOutcomes ==
    {[raised |-> FALSE, msg |-> <<>>]}
        \cup {[raised |-> TRUE, msg |-> m] : m \in {Msg429, MsgRateLimit, MsgInvalid}}

\* random.uniform(0, 1), in milliseconds
BackoffJitterMs == {0, 500, 1000}

\* sub in s
Contains(sub, s) ==
    \E i \in 0..(Len(s) - Len(sub)) : SubSeq(s, i + 1, i + Len(sub)) = sub

\* str.lower()
str_lower(s) == [i \in 1..Len(s) |-> lower(s[i])]

RECURSIVE Pow(_, _)
Pow(b, n) == IF n = 0 THEN 1 ELSE b * Pow(b, n - 1)

\* every exception taken for a rate-limit error
is_rate_limit_error_Always(msg) == TRUE

\* "429" in error_str or "rate limit" in error_str, error_str = str(e).lower()
is_rate_limit_error(msg) ==
    LET error_str == str_lower(msg)
    IN  \/ Contains(<<"4", "2", "9">>, error_str)
        \/ Contains(<<"r", "a", "t", "e", " ", "l", "i", "m", "i", "t">>, error_str)

\* the retry test off by one: a sleep after the last attempt as well
backoff_iteration_SleepsAfterLast(b, out, jitter) ==
    IF b.attempt >= b.max_retries
    THEN [b EXCEPT !.pc = "raised", !.error = MsgBackoffFailed]
    ELSE LET c == [b EXCEPT !.calls = Append(@, out), !.trace = Append(@, "fn")]
         IN  IF ~out.raised THEN [c EXCEPT !.pc = "returned"]
             ELSE IF is_rate_limit_error(out.msg)
                  THEN [c EXCEPT !.attempt = @ + 1,
                                 !.sleeps = Append(@, Pow(BackoffBase, b.attempt) * 1000 + jitter),
                                 !.trace = Append(@, "sleep")]
                  ELSE [c EXCEPT !.pc = "raised", !.error = out.msg]

\* backoff_and_retry: one turn of `for attempt in range(max_retries)` with the
\* outcome of func, or the statement after the loop
backoff_iteration(b, out, jitter) ==
    IF b.attempt >= b.max_retries
    THEN [b EXCEPT !.pc = "raised", !.error = MsgBackoffFailed]
    ELSE LET c == [b EXCEPT !.calls = Append(@, out), !.trace = Append(@, "fn")]
         IN  IF ~out.raised THEN [c EXCEPT !.pc = "returned"]
             ELSE IF is_rate_limit_error(out.msg)
                  THEN IF b.attempt < b.max_retries - 1
                       THEN [c EXCEPT !.attempt = @ + 1,
                                      !.sleeps = Append(@, Pow(BackoffBase, b.attempt) * 1000 + jitter),
                                      !.trace = Append(@, "sleep")]
                       ELSE [c EXCEPT !.pc = "raised", !.error = out.msg]
                  ELSE [c EXCEPT !.pc = "raised", !.error = out.msg]

BackoffInit ==
    /\ now = RateStart
    /\ period = 1
    /\ usage_monthly = <<>>
    /\ budget_mgr = BudgetManager("free", DefaultBufferPct, 0, 0)
    /\ budget_ret = NoRet
    /\ budget_ops = 0
    /\ StoreEmpty
    /\ RateIdle
    /\ RetryIdle
    /\ LearnIdle
    /\ SchedIdle

\* backoff_and_retry(func, max_retries=arg); no argument is arg = 0
BackoffStart(arg) ==
    /\ backoff = NoRet
    /\ backoff' = [op |-> "backoff_and_retry", arg |-> arg,
                   max_retries |-> OrElse(arg, SelfMaxRetries), attempt |-> 0,
                   pc |-> "loop", calls |-> <<>>, sleeps |-> <<>>, trace |-> <<>>,
                   error |-> <<>>]
    /\ UNCHANGED <<now, budgetVars, storeVars, rateVars, schedVars, request, learnVars>>

\* one turn of the loop: func is invoked, then time.sleep(delay) if it retries
BackoffStep(out, jitter) ==
    /\ backoff # NoRet
    /\ backoff.pc = "loop"
    /\ backoff' = backoff_iteration(backoff, out, jitter)
    /\ LET slept == IF Len(backoff'.sleeps) > Len(backoff.sleeps)
                    THEN backoff'.sleeps[Len(backoff'.sleeps)] ELSE 0
       IN  /\ now' = (TimeMs + slept) \div 1000
           /\ frac' = (TimeMs + slept) % 1000
    /\ UNCHANGED <<budgetVars, storeVars, limits, rl_ret, schedVars, request, learnVars>>

BackoffNext ==
    \/ \E arg \in 0..MaxRetriesArg : BackoffStart(arg)
    \/ \E out \in FnOutcomes, jitter \in BackoffJitterMs : BackoffStep(out, jitter)

\* the call runs on: func returns or raises, and a sleep ends
SpecBackoff == BackoffInit /\ [][BackoffNext]_vars /\ WF_vars(BackoffNext)

BackoffRunning == backoff # NoRet /\ backoff.pc = "loop"

BackoffFinished == backoff # NoRet /\ backoff.pc \in {"returned", "raised"}

\* the sample messages that speak of a rate limit
Flavoured(msg) == msg \in {Msg429, MsgRateLimit}

\* in the history, a sleep stands between any two invocations and nowhere else
SleepBeforeEachRetry(b) ==
    /\ \A i \in 1..Len(b.trace) :
          IF b.trace[i] = "fn"
          THEN i > 1 => b.trace[i - 1] = "sleep"
          ELSE i > 1 /\ b.trace[i - 1] = "fn"
    /\ BackoffFinished => Len(b.sleeps) = Len(b.calls) - 1

\* C11: backoff_and_retry terminates; func is invoked at most max_retries
\* times (max_retries: the argument, or the limiter's own when none is
\* given), one sleep precedes each retry, and when every invocation raised a
\* rate-limit exception the call raises the last of them, after max_retries
\* invocations.
C11_BackoffTerminates ==
    /\ [](backoff # NoRet =>
            /\ Len(backoff.calls) <= backoff.max_retries
            /\ backoff.arg >= 1 => Len(backoff.calls) <= backoff.arg
            /\ SleepBeforeEachRetry(backoff)
            /\ (BackoffFinished /\ \A i \in 1..Len(backoff.calls) :
                    backoff.calls[i].raised /\ Flavoured(backoff.calls[i].msg))
                  => /\ backoff.pc = "raised"
                     /\ Len(backoff.calls) = backoff.max_retries
                     /\ backoff.error = backoff.calls[Len(backoff.calls)].msg)
    /\ (BackoffRunning ~> BackoffFinished)

\* three rate-limit exceptions in a row with max_retries = 3
C11_Witness ==
    /\ BackoffFinished
    /\ backoff.arg = 3
    /\ Len(backoff.calls) = 3
    /\ Len(backoff.sleeps) = 2
    /\ backoff.error = MsgRateLimit

\* C12: an exception whose message speaks of no rate limit ends the call in
\* the invocation that raised it: it is the exception the call raises, func
\* is not invoked again and no sleep follows, on the first invocation as
\* after retries.
C12_OtherErrorsPropagate ==
    backoff # NoRet =>
        \A i \in 1..Len(backoff.calls) :
            (backoff.calls[i].raised /\ ~Flavoured(backoff.calls[i].msg))
                => /\ i = Len(backoff.calls)
                   /\ backoff.pc = "raised"
                   /\ backoff.error = backoff.calls[i].msg
                   /\ backoff.trace[Len(backoff.trace)] = "fn"
                   /\ Len(backoff.sleeps) = i - 1

\* an unrelated exception on the second invocation, after one retry
C12_Witness ==
    /\ BackoffFinished
    /\ Len(backoff.calls) = 2
    /\ backoff.calls[1].msg = Msg429
    /\ backoff.calls[2].msg = MsgInvalid
    /\ backoff.error = MsgInvalid

(***************************************************************************)
(* reliability.py: request_with_retries                                    *)
(***************************************************************************)
MaxHttpRetries == 2

RETRYABLE_STATUSES == {429, 500, 502, 503, 504}

\* random.uniform(0, 0.5), in milliseconds
RetryJitterMs == {0, 500}

\* (backoff_base, backoff_cap) in milliseconds: the defaults 0.5 and 8.0, and
\* the pair 2.0 and 3.0 under which the cap binds on the second attempt
BackoffChoices == {<<500, 8000>>, <<2000, 3000>>}

Methods == {"GET", "POST", "post"}

\* str.upper() on a method name
upper(method) == IF method = "post" THEN "POST" ELSE method

\* a JSON object as the caller built it: its (key, value) pairs in insertion order
BodyAB == << <<"a", "1">>, <<"b", "2">> >>

BodyBA == << <<"b", "2">>, <<"a", "1">> >>

BodyA == << <<"a", "1">> >>

NoBody == <<>>

JsonKeys == <<"a", "b">>

\* json.dumps without sort_keys: the pairs in insertion order
json_dumps_Unsorted(payload) == payload

\* json.dumps(payload, sort_keys=True, separators=(",", ":"))
json_dumps(payload) ==
    LET has(k) == \E i \in 1..Len(payload) : payload[i][1] = k
        present == SelectSeq(JsonKeys, has)
        value(k) == payload[CHOOSE i \in 1..Len(payload) : payload[i][1] = k][2]
    IN  [i \in 1..Len(present) |-> <<present[i], value(present[i])>>]

\* hashlib.sha256(data).hexdigest() of the serialised payload
_compute_idempotency_key(payload) == <<"sha256", json_dumps(payload)>>

CallerKey == <<"caller-key">>

\* headers passed by the caller
CallerHeaders ==
    { <<>>,
      [n \in {"Idempotency-Key"} |-> CallerKey],
      [n \in {"idempotency-key"} |-> CallerKey] }

\* request_with_retries: hdrs, as built before the loop
build_hdrs(method, headers, json_body) ==
    IF upper(method) = "POST" /\ "Idempotency-Key" \notin DOMAIN headers
    THEN [n \in DOMAIN headers \cup {"Idempotency-Key"} |->
            IF n = "Idempotency-Key" THEN _compute_idempotency_key(json_body)
            ELSE headers[n]]
    ELSE headers

\* a response header value: absent, or a string that is or is not all digits
AbsentValue == [present |-> FALSE, isdigit |-> FALSE, int |-> 0]

Digits(n) == [present |-> TRUE, isdigit |-> TRUE, int |-> n]

NotDigits == [present |-> TRUE, isdigit |-> FALSE, int |-> 0]

\* resp.headers.get(name)
RespGet(headers, name) == IF name \in DOMAIN headers THEN headers[name] ELSE AbsentValue

\* resp.headers.get("x-rate-limit-reset") or resp.headers.get("X-Rate-Limit-Reset")
rl_reset(headers) ==
    IF RespGet(headers, "x-rate-limit-reset").present
    THEN RespGet(headers, "x-rate-limit-reset")
    ELSE RespGet(headers, "X-Rate-Limit-Reset")

\* the exceptions requests.request raises; requests.ConnectTimeout is a
\* requests.Timeout (and a ConnectionError), requests.ConnectionError is not
RequestExceptions == {"Timeout", "ConnectTimeout", "ConnectionError"}

is_Timeout(exc) == exc \in {"Timeout", "ConnectTimeout"}

Response(status, headers) ==
    [kind |-> "response", exc |-> "", status |-> status, headers |-> headers]

Raised(exc) == [kind |-> "exception", exc |-> exc, status |-> 0, headers |-> <<>>]

NoOutcome == [kind |-> "none", exc |-> "", status |-> 0, headers |-> <<>>]

\* what one requests.request call can give at clock second t
HttpOutcomes(t) ==
    {Raised(e) : e \in RequestExceptions}
      \cup {Response(st, <<>>) : st \in {200, 404, 429, 503}}
      \cup {Response(429, [n \in {"x-rate-limit-reset"} |-> v]) :
               v \in {Digits(t - 1), Digits(t + 2), NotDigits}}
      \cup {Response(429, [n \in {"X-Rate-Limit-Reset"} |-> Digits(t + 100)])}

Min(a, b) == IF a < b THEN a ELSE b

Max(a, b) == IF a > b THEN a ELSE b

\* min(backoff_cap, backoff_base * (2**attempt)) + random.uniform(0, 0.5)
exponential_wait(r, jitter) ==
    Min(r.backoff_cap, r.backoff_base * Pow(2, r.attempt)) + jitter

\* the wait on a reset header with the cap left out
reset_wait_Uncapped(r, reset_at, t) == Max(0, (reset_at - t) * 1000)

\* max(0.0, min(backoff_cap, float(reset_at - now))), now = int(time.time())
reset_wait(r, reset_at, t) == Max(0, Min(r.backoff_cap, (reset_at - t) * 1000))

\* the retry budget taken to last one attempt longer
budget_spent_Late(r) == r.attempt > r.retries

\* attempt >= retries
budget_spent(r) == r.attempt >= r.retries

\* resp.raise_for_status() raises for a 4xx or 5xx status
raises_for_status(status) == 400 <= status /\ status < 600

\* request_with_retries: one turn of `while True` with the outcome of
\* requests.request, at clock t_ms (milliseconds)
request_iteration(r, out, jitter, t_ms) ==
    LET q == [r EXCEPT !.sent = Append(@, [headers |-> r.hdrs, out |-> out]),
                       !.trace = Append(@, "request")]
        retry(ms) == [q EXCEPT !.attempt = @ + 1,
                               !.sleeps = Append(@, [ms |-> ms, attempt |-> r.attempt,
                                                     at |-> t_ms, out |-> out]),
                               !.trace = Append(@, "sleep")]
        fail == [q EXCEPT !.pc = "raised", !.error = out]
        done == [q EXCEPT !.pc = "returned"]
    IN  IF out.kind = "exception"
        THEN IF is_Timeout(out.exc)
             THEN IF budget_spent(r) THEN fail ELSE retry(exponential_wait(r, jitter))
             ELSE fail
        ELSE IF out.status < 400 THEN done
        ELSE IF out.status \notin RETRYABLE_STATUSES \/ budget_spent(r)
             THEN IF raises_for_status(out.status) THEN fail ELSE done
             ELSE LET h == rl_reset(out.headers)
                  IN  IF h.present /\ h.isdigit
                      THEN retry(reset_wait(r, h.int, t_ms \div 1000))
                      ELSE retry(exponential_wait(r, jitter))

RequestInit == BackoffInit

\* the calls explored: a GET without body, POSTs of one object built in two
\* orders with and without a key of the caller's, a lower-case "post"
RequestArgs ==
    {<<"GET", <<>>, NoBody>>, <<"post", <<>>, BodyA>>}
        \cup {<<"POST", h, b>> : h \in CallerHeaders, b \in {BodyAB, BodyBA}}

\* request_with_retries(method, url, headers=..., json_body=..., retries=...,
\* backoff_base=..., backoff_cap=...) up to the loop
RequestStart(args, retries, bc) ==
    /\ request = NoRet
    /\ request' = [op |-> "request_with_retries", method |-> args[1],
                   headers |-> args[2], json_body |-> args[3], retries |-> retries,
                   backoff_base |-> bc[1], backoff_cap |-> bc[2], attempt |-> 0,
                   pc |-> "loop", hdrs |-> build_hdrs(args[1], args[2], args[3]),
                   sent |-> <<>>, sleeps |-> <<>>, trace |-> <<>>,
                   error |-> NoOutcome]
    /\ UNCHANGED <<now, budgetVars, storeVars, rateVars, schedVars, backoff, learnVars>>

\* one turn of the loop: the HTTP request, then sleep_fn(wait) if it retries
RequestStep(out, jitter) ==
    /\ request # NoRet
    /\ request.pc = "loop"
    /\ request' = request_iteration(request, out, jitter, TimeMs)
    /\ LET slept == IF Len(request'.sleeps) > Len(request.sleeps)
                    THEN request'.sleeps[Len(request'.sleeps)].ms ELSE 0
       IN  /\ now' = (TimeMs + slept) \div 1000
           /\ frac' = (TimeMs + slept) % 1000
    /\ UNCHANGED <<budgetVars, storeVars, limits, rl_ret, schedVars, backoff, learnVars>>

RequestNext ==
    \/ \E args \in RequestArgs, retries \in 0..MaxHttpRetries, bc \in BackoffChoices :
          RequestStart(args, retries, bc)
    \/ \E out \in HttpOutcomes(now), jitter \in RetryJitterMs : RequestStep(out, jitter)

\* the call runs on: every HTTP request ends (timeout=...) and every sleep ends
SpecRequest == RequestInit /\ [][RequestNext]_vars /\ WF_vars(RequestNext)

RequestRunning == request # NoRet /\ request.pc = "loop"

RequestFinished == request # NoRet /\ request.pc \in {"returned", "raised"}

\* the outcome is a failure the loop may retry: a timeout or a retryable status
Retryable(out) ==
    \/ out.kind = "exception" /\ out.exc \in {"Timeout", "ConnectTimeout"}
    \/ out.kind = "response" /\ out.status \in {429, 500, 502, 503, 504}

\* the i-th request ended the call, with no sleep after it
EndsCall(i) ==
    /\ i = Len(request.sent)
    /\ RequestFinished
    /\ request.trace[Len(request.trace)] = "request"
    /\ Len(request.sleeps) = i - 1

\* C13: request_with_retries terminates after at most retries + 1 HTTP
\* requests whatever mix of timeouts and retryable statuses it meets; a
\* response with status < 400 is returned at once; a status >= 400 outside
\* {429, 500, 502, 503, 504} is raised by the request that received it, with
\* no sleep; and when the retry budget is spent the last failure is raised.
C13_RequestTerminates ==
    /\ [](request # NoRet =>
            /\ Len(request.sent) <= request.retries + 1
            /\ \A i \in 1..Len(request.sent) :
                  LET out == request.sent[i].out
                  IN  /\ (out.kind = "response" /\ out.status < 400)
                            => EndsCall(i) /\ request.pc = "returned"
                      /\ (out.kind = "response" /\ out.status >= 400 /\ ~Retryable(out))
                            => EndsCall(i) /\ request.pc = "raised" /\ request.error = out
                      /\ (Retryable(out) /\ i = request.retries + 1)
                            => EndsCall(i) /\ request.pc = "raised" /\ request.error = out)
    /\ (RequestRunning ~> RequestFinished)

\* a timeout, then a 503, then a 429 that spends the budget of two retries
C13_Witness ==
    /\ RequestFinished
    /\ request.retries = 2
    /\ Len(request.sent) = 3
    /\ request.sent[1].out.exc = "Timeout"
    /\ request.sent[2].out.status = 503
    /\ request.error.status = 429

\* C14: a connect exception raised by the HTTP call while the retry budget
\* is not exhausted is followed by a sleep and another attempt; it is raised
\* to the caller only when the budget is spent.
C14_ConnectFailuresRetried ==
    request # NoRet =>
        \A i \in 1..Len(request.sent) :
            LET out == request.sent[i].out
            IN  (/\ out.kind = "exception"
                 /\ out.exc \in {"ConnectTimeout", "ConnectionError"}
                 /\ i - 1 < request.retries)
                    => /\ request.pc # "raised" \/ i < Len(request.sent)
                       /\ Len(request.sleeps) >= i

\* two JSON objects are equal: the same keys with the same values
DictEq(a, b) == {a[i] : i \in 1..Len(a)} = {b[i] : i \in 1..Len(b)}

\* C15: in one request_with_retries call for a POST every attempt carries
\* the same Idempotency-Key header; when the caller gave none, the key is the
\* one computed from any JSON body equal to the call's; headers the caller
\* gave, an Idempotency-Key among them, are sent as given on every attempt.
C15_IdempotencyKeyStable ==
    (request # NoRet /\ upper(request.method) = "POST") =>
        \A i \in 1..Len(request.sent) :
            LET sent == request.sent[i].headers
            IN  /\ "Idempotency-Key" \in DOMAIN sent
                /\ sent["Idempotency-Key"] = request.sent[1].headers["Idempotency-Key"]
                /\ \A n \in DOMAIN request.headers : sent[n] = request.headers[n]
                /\ "Idempotency-Key" \notin DOMAIN request.headers
                      => \A b \in {BodyAB, BodyBA, BodyA} :
                            DictEq(b, request.json_body)
                               => sent["Idempotency-Key"] = _compute_idempotency_key(b)

\* a POST without a caller key, of the object built as b then a, tried three times
C15_Witness ==
    /\ request # NoRet
    /\ request.method = "POST"
    /\ request.headers = <<>>
    /\ request.json_body = BodyBA
    /\ Len(request.sent) = 3

\* C16: the sleep after a 429 with an all-digit reset header is exactly
\* max(0, min(backoff_cap, reset - now)), now the clock in whole seconds,
\* with no jitter; after a failure without that header it is
\* min(backoff_cap, backoff_base * 2^attempt) plus a jitter in [0, 0.5];
\* every sleep is at most backoff_cap + 0.5.
C16_SleepDurations ==
    request # NoRet =>
        \A k \in 1..Len(request.sleeps) :
            LET sl == request.sleeps[k]
                lo == RespGet(sl.out.headers, "x-rate-limit-reset")
                hi == RespGet(sl.out.headers, "X-Rate-Limit-Reset")
                expo == Min(request.backoff_cap, request.backoff_base * Pow(2, k - 1))
                exact(reset) ==
                    Max(0, Min(request.backoff_cap, (reset - sl.at \div 1000) * 1000))
            IN  /\ sl.ms <= request.backoff_cap + 500
                /\ (sl.out.status = 429 /\ lo.present /\ lo.isdigit) => sl.ms = exact(lo.int)
                /\ (sl.out.status = 429 /\ ~lo.present /\ hi.present /\ hi.isdigit)
                      => sl.ms = exact(hi.int)
                /\ (~lo.present /\ ~hi.present)
                      => sl.ms - expo >= 0 /\ sl.ms - expo <= 500

\* a reset header far ahead gives a sleep of backoff_cap, and the next
\* failure a capped exponential sleep with the largest jitter
C16_Witness ==
    /\ request # NoRet
    /\ request.backoff_cap = 3000
    /\ Len(request.sleeps) = 2
    /\ request.sleeps[1].out.status = 429
    /\ RespGet(request.sleeps[1].out.headers, "X-Rate-Limit-Reset").present
    /\ request.sleeps[1].ms = 3000
    /\ request.sleeps[2].ms = 3500

(***************************************************************************)
(* scheduler.py, actions.py: interaction passes over two queries, with     *)
(* restarts of the process between passes.  act_on_search is given a       *)
(* client whose search returns posts whether dry_run is set or not.        *)
(***************************************************************************)
MaxPasses == 2

TwoQueries == <<"q1", "q2">>

\* config["max_per_window"]: limits of 0, 1 and 2
InteractLimits ==
    { [k \in Kinds |-> IF k \in {"reply", "follow"} THEN 1 ELSE 0],
      [k \in Kinds |-> IF k = "like" THEN 2 ELSE 0] }

\* the jitter sleep at the lower bound of jitter_seconds
InteractJitter == {8}

\* the result lists of a search, already shuffled: posts of another author
\* (two of the same author) and one of the agent's own
InteractResults ==
    UNION {Shuffles(r) : r \in { <<>>, <<PostAt(1)>>, <<PostAt(4)>>,
                                 <<PostAt(1), PostAt(2)>>, <<PostAt(1), PostAt(4)>> }}

InteractInit ==
    /\ now = StartTime
    /\ period = 1
    /\ budget_mgr = BudgetManager("free", DefaultBufferPct, 0, 0)
    /\ usage_monthly = <<>>
    /\ budget_ret = NoRet
    /\ budget_ops = 0
    /\ StoreEmpty
    /\ RateIdle
    /\ RetryIdle
    /\ LearnIdle
    /\ SchedIdle

\* main.py "run --mode interact": run_scheduler enters run_interact_actions
InteractStart(dry_run, mpw) ==
    /\ pc \in {"idle", "exited"}
    /\ passes < MaxPasses
    /\ passes' = passes + 1
    /\ cfg' = [mode |-> "interact", dry_run |-> dry_run, client_dry |-> FALSE,
               plan |-> "free", queries |-> TwoQueries, max_per_window |-> mpw,
               allow_likes |-> "auto", allow_follows |-> "auto"]
    /\ pc' = "run_interact_actions"
    /\ run_snap' = Snapshot
    /\ UNCHANGED <<now, budgetVars, storeVars, rateVars, retryVars, learnVars, loc, api_calls,
                   post_trace, post_snap>>

InteractNext ==
    \/ \E dry_run \in BOOLEAN, mpw \in InteractLimits : InteractStart(dry_run, mpw)
    \/ \E outcome \in {"ok", "raise"} : GetMe(outcome)
    \/ \E ok \in BOOLEAN, posts \in InteractResults : Search(ok, posts)
    \/ ForPost
    \/ \E reply_text \in REPLY_TEMPLATES, jitter \in InteractJitter :
          ForAction(reply_text, jitter)
    \/ \E ok \in BOOLEAN : ActCall(ok)
    \/ \E jitter \in InteractJitter : ActLog(jitter)
    \/ ExitRun

SpecInteract == InteractInit /\ [][InteractNext]_vars

(***************************************************************************)
(* Properties of an interaction pass                                       *)
(***************************************************************************)
\* the entries of the history that are actions of act_on_search, executed
\* through the client or simulated under dry_run
IsAction(c) ==
    /\ c.call \in {MethodOf(k) : k \in Kinds}
    /\ c.path \in {"interact", "simulated"}

\* the candidate posts written by the agent itself, and the keys an action
\* against one of them would carry
SelfPosts == {PostAt(i) : i \in {j \in 1..Len(TweetIds) : AuthorIds[j] = MeId}}

SelfTargets == {p.id : p \in SelfPosts} \cup {MeId}

\* the head of the candidates is a post whose author is the agent
SelfIsNext ==
    /\ pc = "for_post"
    /\ loc.posts # <<>>
    /\ ~AllSpent(loc.remaining)
    /\ Head(loc.posts).author_id # ""
    /\ Head(loc.posts).author_id = loc.me_user_id

SelfUntouched ==
    /\ \A i \in CallsWhere(IsAction) : api_calls[i].target \notin SelfTargets
    /\ \A i \in 1..Len(actions) : actions[i].post_id \notin SelfTargets

SelfSkipStep ==
    SelfIsNext =>
        /\ pc' = "for_post"
        /\ loc'.posts = Tail(loc.posts)
        /\ loc'.remaining = loc.remaining
        /\ api_calls' = api_calls
        /\ actions' = actions
        /\ now' = now

\* C17: in act_on_search no action is executed or logged against a
\* candidate whose author_id equals the agent's own user id: the step over
\* such a candidate leaves the quota, the call history, the action log and
\* the clock as they were and moves on to the next candidate, so posts of
\* other authors in the same result list are still processed.
C17_SelfPostsSkipped == [](SelfUntouched) /\ [][SelfSkipStep]_vars

\* a result list of two posts, one the agent's own: the own post was passed
\* over and the only action of the query so far went to the other author's
C17_Witness ==
    /\ passes = 1
    /\ loc.qi = 1
    /\ loc.me_user_id = MeId
    /\ loc.posts = <<>>
    /\ Len(api_calls) = 3
    /\ api_calls[2].call = "search_recent"
    /\ api_calls[2].results = 2
    /\ IsAction(api_calls[3])
    /\ api_calls[3].target = "t1"
    /\ api_calls[3].path = "interact"
    /\ \E i \in 1..Len(actions) : actions[i].post_id = "t1"
    /\ loc.remaining # loc.limits

\* the place in the history of the search that opened the act_on_search
\* call under way (0 before the first)
LastSearch ==
    LET S == {i \in 1..Len(api_calls) : api_calls[i].call = "search_recent"}
    IN  IF S = {} THEN 0 ELSE CHOOSE i \in S : \A j \in S : j <= i

\* the actions of kind k executed or simulated since that search
ExecutedInCall(k) ==
    Cardinality({i \in CallsWhere(IsAction) :
                    /\ i > LastSearch
                    /\ api_calls[i].call = MethodOf(k)
                    /\ api_calls[i].ok})

\* between two actions of an act_on_search call, and when it has returned
CountersSettled ==
    \/ pc \in {"for_post", "for_action"}
    \/ pc \in {"act_on_search", "done"} /\ loc.qi > 1

QuotaKept ==
    \A k \in Kinds :
        /\ pc \in {"for_post", "for_action", "act_call", "act_log"} =>
              /\ ExecutedInCall(k) <= loc.limits[k]
              /\ loc.remaining[k] >= 0
        /\ CountersSettled =>
              loc.remaining[k] = loc.limits[k] - ExecutedInCall(k)

NoActionOnceSpent ==
    (pc \in {"for_post", "for_action"} /\ \A k \in Kinds : loc.remaining[k] = 0) =>
        /\ api_calls' = api_calls
        /\ actions' = actions
        /\ now' = now
        /\ pc' # "act_call"

\* C18: within one act_on_search call with non-negative limits, for each
\* kind k the number of actions executed or simulated under dry_run is at
\* most limits[k]; remaining[k] is limits[k] minus that number, never
\* negative, between the actions and when the call returns; and once every
\* counter is zero no step of the call executes a further action.
C18_QuotaPerCall == [](QuotaKept) /\ [][NoActionOnceSpent]_vars

\* a dry run that has simulated its one reply and its one follow on the first
\* candidate and stands before a second candidate with every counter at zero
C18_Witness ==
    /\ pc = "for_post"
    /\ cfg.dry_run
    /\ loc.limits["reply"] = 1
    /\ loc.limits["follow"] = 1
    /\ \A k \in Kinds : loc.remaining[k] = 0
    /\ loc.posts # <<>>
    /\ ~(Head(loc.posts).author_id = loc.me_user_id)
    /\ ExecutedInCall("reply") = 1
    /\ ExecutedInCall("follow") = 1
    /\ \A i \in CallsWhere(IsAction) : i > LastSearch => api_calls[i].path = "simulated"

\* the actions of kind k executed through the client since the process
\* started: one run_interact_actions call
ExecutedInPass(k) ==
    Cardinality({i \in CallsWhere(IsAction) :
                    /\ api_calls[i].call = MethodOf(k)
                    /\ api_calls[i].path = "interact"
                    /\ api_calls[i].ok})

\* C19: across all configured queries of one run_interact_actions call the
\* number of executed actions of each kind is at most max_per_window[kind].
C19_QuotaPerPass ==
    pc \notin {"idle", "exited"} =>
        \A k \in Kinds : ExecutedInPass(k) <= cfg.max_per_window[k]

\* an ActionRecord (t, k) is in the log
RecordExists(t, k) ==
    \E i \in 1..Len(actions) : actions[i].post_id = t /\ actions[i].kind = k

\* the action kind a client method stands for
KindOf(call) == CHOOSE k \in Kinds : MethodOf(k) = call

OneRecordPerTarget ==
    \A i, j \in 1..Len(actions) :
        (/\ actions[i].kind \in Kinds
         /\ actions[i].kind = actions[j].kind
         /\ actions[i].post_id = actions[j].post_id) => i = j

\* a step that executes or simulates an action finds no record of it
ExecutedOnlyIfNew ==
    (Len(api_calls') = Len(api_calls) + 1 /\ IsAction(api_calls'[Len(api_calls')])) =>
        LET c == api_calls'[Len(api_calls')]
        IN  ~RecordExists(c.target, KindOf(c.call))

\* the step over an action whose record exists
SkipStep ==
    (/\ pc = "for_action"
     /\ loc.acts # <<>>
     /\ RecordExists(TargetOf(Head(loc.acts), loc.post), Head(loc.acts))) =>
        /\ loc'.remaining = loc.remaining
        /\ now' = now
        /\ api_calls' = api_calls
        /\ actions' = actions
        /\ pc' = "for_action"

\* C20: an action of kind k on target t (the post id, or the author id for
\* follow) is executed only when no ActionRecord (t, k) exists; a skipped
\* action consumes no quota and causes no sleep; so over any sequence of
\* passes, with restarts of the process between them, the log holds at most
\* one record per (target, kind) for reply, like, follow and repost.
C20_IdempotentAcrossRestarts ==
    /\ [](OneRecordPerTarget)
    /\ [][ExecutedOnlyIfNew]_vars
    /\ [][SkipStep]_vars

\* after a restart the like of t1 an earlier pass had logged was passed
\* over: the only action open for the candidate is used up, the counter is
\* where it started and the pass has made no call but get_me and the search
C20_Witness ==
    /\ pc = "for_action"
    /\ passes = 2
    /\ ~cfg.dry_run
    /\ loc.qi = 1
    /\ loc.post = PostAt(1)
    /\ loc.acts = <<>>
    /\ loc.limits["like"] = 2
    /\ loc.remaining = loc.limits
    /\ RecordExists("t1", "like")
    /\ Len(api_calls) = 2

(***************************************************************************)
(* Failures of Social API calls (scheduler.py, actions.py, main.py)        *)
(***************************************************************************)
\* a write call of the run that raised
FailedWrites == CallsWhere(LAMBDA c : IsWrite(c) /\ ~c.ok)

\* C21: when a Social API call for a post, reply, like, follow or repost
\* raises, a record of that attempt with a failure status is persisted all
\* the same: once the exception has left the scheduler, the log holds a
\* record whose status is not "success".
C21_FailedAttemptsRecorded ==
    (pc = "failed" /\ FailedWrites # {}) =>
        \E j \in 1..Len(actions) : actions[j].status # "success"

\* a search or an action call of the interaction path that raised
FailedInteractCalls ==
    CallsWhere(LAMBDA c : c.path = "interact" /\ c.call # "get_me" /\ ~c.ok)

\* C22: an exception raised by a single action or a single search of the
\* interaction path is caught where it happens and the pass goes on with the
\* next action, candidate or query: such a failure never ends the run.
C22_FailuresContained == FailedInteractCalls # {} => pc # "failed"

(***************************************************************************)
(* Policy rejections (scheduler.py, actions.py)                            *)
(***************************************************************************)
\* the posting step of the run ended on a duplicate veto or a budget refusal
PostVetoed ==
    /\ post_trace # <<>>
    /\ post_trace[Len(post_trace)] \in {"duplicate", "refused"}

\* the step that takes the veto returns from run_post_action, and in mode
\* 'both' the return is followed by run_interact_actions
VetoStep ==
    /\ (pc \in {"post_dedup", "post_budget"} /\ ~PostVetoed /\ PostVetoed') =>
          pc' = "post_return"
    /\ (pc = "post_return" /\ PostVetoed /\ cfg.mode = "both") =>
          pc' = "run_interact_actions"

\* the step over an action the log already holds goes on with the next
\* action of the candidate
AlreadyActedStep ==
    (/\ pc = "for_action"
     /\ loc.acts # <<>>
     /\ \E i \in 1..Len(actions) :
           /\ actions[i].post_id = TargetOf(Head(loc.acts), loc.post)
           /\ actions[i].kind = Head(loc.acts)) =>
        /\ pc' = "for_action"
        /\ loc'.acts = Tail(loc.acts)
        /\ loc'.posts = loc.posts

\* a cycle of mode 'both' whose posting step was vetoed ends only after the
\* interaction path was entered
VetoedCycleInteracts ==
    (pc = "done" /\ cfg.mode = "both" /\ PostVetoed) => loc.qi >= 1

\* C23: policy rejections never abort the cycle: in mode 'both' a duplicate
\* veto or a budget refusal returns from the posting step without an error
\* and the interaction path still runs in the same cycle; on the
\* interaction path an already-performed action is skipped and the pass
\* goes on with the next action or candidate.
C23_RejectionsDoNotAbort ==
    /\ [](VetoedCycleInteracts)
    /\ [][VetoStep]_vars
    /\ [][AlreadyActedStep]_vars

\* a cycle of mode 'both' that was refused the post by the budget and went
\* on to search and to act on a candidate
C23_Witness ==
    /\ pc = "done"
    /\ cfg.mode = "both"
    /\ post_trace = <<"not_duplicate", "refused">>
    /\ \E i \in CallsWhere(IsInteractCall) :
          api_calls[i].call = "search_recent" /\ api_calls[i].ok
    /\ \E i \in CallsWhere(IsInteractCall) :
          api_calls[i].call \in WriteCalls /\ api_calls[i].ok

\* C24: when get_me returns no id the run is aborted before any search or
\* interaction action is attempted: the interaction path never holds the
\* placeholder "unknown" as the agent's user id while it goes on.
C24_UnresolvedIdAborts == loc.me_user_id = "unknown" => pc = "failed"

(***************************************************************************)
(* storage.py: the Thompson-Sampling bandit.  A float is carried as the    *)
(* fraction <<n, d>> in lowest terms with d > 0; an arm key is the         *)
(* sequence of the fields its text holds between the "|" signs.            *)
(***************************************************************************)
MaxUpdates == 3

Abs(n) == IF n < 0 THEN -n ELSE n

RECURSIVE GCD(_, _)
GCD(a, b) == IF b = 0 THEN a ELSE GCD(b, a % b)

Rat(n, d) == LET g == GCD(Abs(n), d) IN <<n \div g, d \div g>>

Zero == <<0, 1>>

One == <<1, 1>>

RatAdd(a, b) == Rat(a[1] * b[2] + b[1] * a[2], a[2] * b[2])

RatSub(a, b) == Rat(a[1] * b[2] - b[1] * a[2], a[2] * b[2])

RatLeq(a, b) == a[1] * b[2] <= b[1] * a[2]

RatMin(a, b) == IF RatLeq(a, b) THEN a ELSE b

RatMax(a, b) == IF RatLeq(a, b) THEN b ELSE a

\* the reward taken as it comes
clamp_reward_None(reward) == reward

\* max(0.0, min(1.0, reward))
clamp_reward(reward) == RatMax(Zero, RatMin(One, reward))

\* a prior of (0, 0) for an arm without a row
bandit_row_ZeroPrior(tbl, arm) ==
    IF \E x \in tbl : x.arm = arm
    THEN LET x == CHOOSE x \in tbl : x.arm = arm IN [alpha |-> x.alpha, beta |-> x.beta]
    ELSE [alpha |-> Zero, beta |-> Zero]

\* SELECT alpha, beta FROM bandit WHERE arm=?; (1.0, 1.0) when there is no row
bandit_row(tbl, arm) ==
    IF \E x \in tbl : x.arm = arm
    THEN LET x == CHOOSE x \in tbl : x.arm = arm IN [alpha |-> x.alpha, beta |-> x.beta]
    ELSE [alpha |-> One, beta |-> One]

\* Storage.bandit_update: the table after the call
bandit_update(tbl, arm, reward) ==
    LET r == clamp_reward(reward)
        row == bandit_row(tbl, arm)
        new == [arm |-> arm, alpha |-> RatAdd(row.alpha, r),
                beta |-> RatAdd(row.beta, RatSub(One, r))]
    IN  {x \in tbl : x.arm # arm} \cup {new}

\* Storage.bandit_choose: the rows it reads for the arms it is given
bandit_reads(tbl, arms) == [i \in 1..Len(arms) |-> bandit_row(tbl, arms[i])]

\* f"{topic}|{slot}|{int(media) > 0}"
ArmKey(topic, slot, media) == <<topic, slot, IF media > 0 THEN "True" ELSE "False">>

ArmSamples == {ArmKey("automation", "morning", 0), ArmKey("ai", "morning", 0)}

\* rewards below 0, inside [0, 1] and above 1
RewardSamples == {<<-1, 1>>, Zero, <<1, 4>>, <<1, 2>>, One, <<5, 2>>}

\* the updates made so far: each adds 1 to alpha + beta of one arm
RECURSIVE Pulls(_)
Pulls(tbl) ==
    IF tbl = {} THEN 0
    ELSE LET x == CHOOSE x \in tbl : TRUE
             sum == RatSub(RatAdd(x.alpha, x.beta), <<2, 1>>)
         IN  sum[1] \div sum[2] + Pulls(tbl \ {x})

BanditInit ==
    /\ now = StartTime
    /\ period = 1
    /\ budget_mgr = BudgetManager("free", DefaultBufferPct, 0, 0)
    /\ usage_monthly = <<>>
    /\ budget_ret = NoRet
    /\ budget_ops = 0
    /\ StoreEmpty
    /\ RateIdle
    /\ RetryIdle
    /\ LearnIdle
    /\ SchedIdle

BanditUpdate(arm, reward) ==
    /\ Pulls(bandit) < MaxUpdates
    /\ bandit' = bandit_update(bandit, arm, reward)
    /\ learn' = [op |-> "bandit_update", arm |-> arm, reward |-> reward, before |-> bandit]
    /\ UNCHANGED <<now, budgetVars, storeVars, rateVars, schedVars, retryVars,
                   metrics, engagement, slot_ret>>

\* the sampled maximum may fall on any of the arms
BanditChoose(arms, pick) ==
    /\ pick \in 1..Len(arms)
    /\ learn' = [op |-> "bandit_choose", arms |-> arms,
                 read |-> bandit_reads(bandit, arms), ret |-> arms[pick],
                 before |-> bandit]
    /\ UNCHANGED <<now, budgetVars, storeVars, rateVars, schedVars, retryVars,
                   bandit, metrics, engagement, slot_ret>>

ArmLists == UNION {Shuffles(l) : l \in {<<ArmKey("automation", "morning", 0)>>,
                                        <<ArmKey("automation", "morning", 0),
                                          ArmKey("ai", "morning", 0)>>}}

BanditNext ==
    \/ \E arm \in ArmSamples, reward \in RewardSamples : BanditUpdate(arm, reward)
    \/ \E arms \in ArmLists : \E pick \in 1..Len(arms) : BanditChoose(arms, pick)

SpecBandit == BanditInit /\ [][BanditNext]_vars

\* the row of an arm in a table, (1, 1) standing for no row
RowOr11(tbl, arm) ==
    IF \E x \in tbl : x.arm = arm
    THEN LET x == CHOOSE x \in tbl : x.arm = arm IN <<x.alpha, x.beta>>
    ELSE <<One, One>>

\* C25: bandit_update(arm, reward) clamps reward to [0,1] and then sets
\* alpha := alpha + r and beta := beta + (1 - r) for that arm only, starting
\* from (1,1) when the arm has no row; no other arm's row changes.
C25_BanditUpdate ==
    learn.op = "bandit_update" =>
        LET r == IF learn.reward[1] < 0 THEN Zero
                 ELSE IF learn.reward[1] > learn.reward[2] THEN One ELSE learn.reward
            old == RowOr11(learn.before, learn.arm)
        IN  /\ Cardinality({x \in bandit : x.arm = learn.arm}) = 1
            /\ RowOr11(bandit, learn.arm) =
                  <<RatAdd(old[1], r), RatAdd(old[2], RatSub(One, r))>>
            /\ {x \in bandit : x.arm # learn.arm} = {x \in learn.before : x.arm # learn.arm}

\* reward 2.5 on a fresh arm, next to another arm's row: alpha 2.0, beta 1.0
C25_Witness ==
    /\ learn.op = "bandit_update"
    /\ learn.reward = <<5, 2>>
    /\ ~\E x \in learn.before : x.arm = learn.arm
    /\ learn.before # {}
    /\ [arm |-> learn.arm, alpha |-> <<2, 1>>, beta |-> One] \in bandit

AtLeastPrior == \A x \in bandit : RatLeq(One, x.alpha) /\ RatLeq(One, x.beta)

NeverDecreases ==
    \A x \in bandit : \E y \in bandit' :
        y.arm = x.arm /\ RatLeq(x.alpha, y.alpha) /\ RatLeq(x.beta, y.beta)

\* C26: after any sequence of bandit_update calls with arbitrary rewards
\* (negative, above 1, or in range) and any interleaved bandit_choose calls,
\* every stored arm has alpha >= 1 and beta >= 1, and neither value ever
\* decreases.
C26_ArmsAtLeastPrior == [](AtLeastPrior) /\ [][NeverDecreases]_vars

\* a negative reward on an arm that an earlier reward above 1 had brought
\* to (2, 1): alpha stays, beta grows by one
C26_Witness ==
    /\ learn.op = "bandit_update"
    /\ learn.reward = <<-1, 1>>
    /\ [arm |-> learn.arm, alpha |-> <<2, 1>>, beta |-> One] \in learn.before
    /\ [arm |-> learn.arm, alpha |-> <<2, 1>>, beta |-> <<2, 1>>] \in bandit

(***************************************************************************)
(* learn.py: compute_reward.  An impression count of None is carried as 0: *)
(* `impressions and impressions > 0` is false for both.                    *)
(***************************************************************************)
MaxMetric == 2

\* impression counts: none reported, fewer than the weighted engagement,
\* and more
ImpressionSamples == {0, 1, 3, 10}

\* every kind of engagement weighted alike
compute_reward_Unweighted(like, reply, rt, quote, impressions) ==
    LET numer == like + reply + rt + quote
        denom == IF impressions # 0 /\ impressions > 0 THEN impressions
                 ELSE Max(1, like + reply + rt + quote)
    IN  RatMax(Zero, RatMin(One, Rat(numer, denom)))

\* without impressions, the weighted sum taken as the denominator too, plus one
compute_reward_Smoothed(like, reply, rt, quote, impressions) ==
    LET numer == like + 2 * reply + 2 * rt + quote
        denom == IF impressions # 0 /\ impressions > 0 THEN impressions
                 ELSE numer + 1
    IN  RatMax(Zero, RatMin(One, Rat(numer, denom)))

compute_reward(like, reply, rt, quote, impressions) ==
    LET numer == like + 2 * reply + 2 * rt + quote
        denom == IF impressions # 0 /\ impressions > 0 THEN impressions
                 ELSE Max(1, like + reply + rt + quote)
    IN  RatMax(Zero, RatMin(One, Rat(numer, denom)))

ComputeReward(like, reply, rt, quote, impressions) ==
    /\ learn' = [op |-> "compute_reward", like |-> like, reply |-> reply, rt |-> rt,
                 quote |-> quote, impressions |-> impressions,
                 ret |-> compute_reward(like, reply, rt, quote, impressions)]
    /\ UNCHANGED <<now, budgetVars, storeVars, rateVars, schedVars, retryVars,
                   bandit, metrics, engagement, slot_ret>>

RewardNext ==
    \E like, reply, rt, quote \in 0..MaxMetric, impressions \in ImpressionSamples :
        ComputeReward(like, reply, rt, quote, impressions)

SpecReward == BanditInit /\ [][RewardNext]_vars

\* C27: compute_reward equals clamp((likes + 2*replies + 2*reposts +
\* quotes) / d, 0, 1) with d = impressions when impressions > 0 and
\* d = max(1, likes + replies + reposts + quotes) otherwise; the result is
\* within [0,1] and is 0 when all counts are 0.
C27_ComputeReward ==
    learn.op = "compute_reward" =>
        LET sum == learn.like + learn.reply + learn.rt + learn.quote
            n == learn.like + 2 * learn.reply + 2 * learn.rt + learn.quote
            d == IF learn.impressions > 0 THEN learn.impressions
                 ELSE IF sum >= 1 THEN sum ELSE 1
            ret == learn.ret
        IN  /\ ret[2] > 0
            /\ 0 <= ret[1] /\ ret[1] <= ret[2]
            /\ n <= 0 => ret[1] = 0
            /\ n >= d => ret[1] = ret[2]
            /\ (0 < n /\ n < d) => ret[1] * d = n * ret[2]
            /\ sum = 0 => ret[1] = 0

\* one like and one reply seen by ten: 3/10
C27_Witness ==
    /\ learn.op = "compute_reward"
    /\ learn.like = 1 /\ learn.reply = 1 /\ learn.rt = 0 /\ learn.quote = 0
    /\ learn.impressions = 10
    /\ learn.ret = <<3, 10>>

(***************************************************************************)
(* learn.py: settle, settle_all; scheduler.py: the topic choice of         *)
(* run_post_action with learning enabled                                   *)
(***************************************************************************)
MaxLearnPosts == 2

MaxSettles == 2

\* LIMIT of the query settle_all makes
SettleLimit == 1000

\* config["topics"]
LearnTopics == <<"automation", "ai">>

\* main.py --settle-all
DefaultArm == ArmKey("default", "morning", 0)

\* what get_tweet gives for a post: an exception, a body without data, or
\* the public metrics of the post
NoMetrics == [kind |-> "data", like |-> 0, reply |-> 0, rt |-> 0, quote |-> 0, impressions |-> 0]

EngagementSamples ==
    { [NoMetrics EXCEPT !.kind = "raise"],
      [NoMetrics EXCEPT !.kind = "no_data"],
      [NoMetrics EXCEPT !.like = 1, !.reply = 1, !.impressions = 10] }

\* Storage.get_recent_actions(kind, limit): ORDER BY dt DESC LIMIT ?
RECURSIVE newest_first(_, _)
newest_first(log, idx) ==
    IF idx = {} THEN <<>>
    ELSE LET i == CHOOSE i \in idx : \A j \in idx : log[j].dt <= log[i].dt
         IN  <<log[i]>> \o newest_first(log, idx \ {i})

get_recent_actions(log, kind, limit) ==
    LET rows == newest_first(log, {i \in 1..Len(log) : log[i].kind = kind})
    IN  SubSeq(rows, 1, Min(limit, Len(rows)))

\* Storage.update_metrics: INSERT OR REPLACE keyed by post_id
update_metrics(tbl, post_id, e, reward) ==
    {x \in tbl : x.post_id # post_id} \cup
        {[post_id |-> post_id, like_count |-> e.like, reply_count |-> e.reply,
          retweet_count |-> e.rt, quote_count |-> e.quote,
          impression_count |-> e.impressions, reward |-> reward]}

\* a body without data settled as a post without engagement
settle_WithoutData(st, e, post_id, arm) ==
    IF e.kind = "raise" THEN [st EXCEPT !.raised = TRUE]
    ELSE LET reward == compute_reward(e.like, e.reply, e.rt, e.quote, e.impressions)
         IN  [bandit |-> bandit_update(st.bandit, arm, reward),
              metrics |-> update_metrics(st.metrics, post_id, e, reward),
              count |-> st.count, raised |-> FALSE]

\* settle: the tables after the call, and whether it returned
settle(st, e, post_id, arm) ==
    IF e.kind = "raise" THEN [st EXCEPT !.raised = TRUE]
    ELSE IF e.kind = "no_data" THEN [st EXCEPT !.raised = FALSE]
    ELSE LET reward == compute_reward(e.like, e.reply, e.rt, e.quote, e.impressions)
         IN  [bandit |-> bandit_update(st.bandit, arm, reward),
              metrics |-> update_metrics(st.metrics, post_id, e, reward),
              count |-> st.count, raised |-> FALSE]

\* settle_all: the arm of a logged post, NoneVal when the post is passed over
arm_of(action, default_arm) ==
    IF action.topic = NoneVal \/ action.slot = NoneVal
    THEN default_arm
    ELSE ArmKey(action.topic, action.slot, action.media)

\* settle_all: the loop over the logged posts
RECURSIVE settle_loop(_, _, _, _)
settle_loop(st, rows, eng, default_arm) ==
    IF rows = <<>> THEN st
    ELSE LET action == Head(rows)
             arm == arm_of(action, default_arm)
             tried == settle(st, eng[action.post_id], action.post_id, arm)
             next == IF action.post_id = NoneVal \/ arm = NoneVal THEN st
                     ELSE IF tried.raised THEN [tried EXCEPT !.raised = FALSE]
                     ELSE [tried EXCEPT !.count = @ + 1]
         IN  settle_loop(next, Tail(rows), eng, default_arm)

settle_all(tbl, mtr, log, eng, default_arm) ==
    settle_loop([bandit |-> tbl, metrics |-> mtr, count |-> 0, raised |-> FALSE],
                get_recent_actions(log, "post", SettleLimit), eng, default_arm)

\* the last settlement pass: how many were made, the posts and engagement
\* it saw, whether the pass before it had seen the same, and the bandit
\* table it found
NoSettle == [n |-> 0, actions |-> <<>>, engagement |-> <<>>, repeat |-> FALSE, before |-> {}]

LastSettle == IF "last" \in DOMAIN learn THEN learn.last ELSE NoSettle

LearnPostIds == <<"p1", "p2", "p3">>

\* run_post_action has posted and logged a post; the platform starts to
\* report its engagement
PostLogged(slot, topic, e) ==
    /\ Len(actions) < MaxLearnPosts
    /\ LET post_id == LearnPostIds[Len(actions) + 1]
           text == CHOOSE t \in choose_template(topic) : TRUE
       IN  /\ actions' = log_action_rows(actions, "post", post_id, NoneVal, text,
                                         topic, slot, NoTime, now)
           /\ text_hashes' = log_action_hashes(text_hashes, post_id, text, NoTime, now)
           /\ engagement' = [p \in DOMAIN engagement \cup {post_id} |->
                               IF p = post_id THEN e ELSE engagement[p]]
    /\ now' = now + 1
    /\ UNCHANGED <<budgetVars, dup_ret, rateVars, schedVars, retryVars,
                   bandit, metrics, learn, slot_ret>>

\* the platform: the engagement of a post changes
Engage(post_id, e) ==
    /\ post_id \in DOMAIN engagement
    /\ engagement[post_id] # e
    /\ engagement' = [engagement EXCEPT ![post_id] = e]
    /\ UNCHANGED <<now, budgetVars, storeVars, rateVars, schedVars, retryVars,
                   bandit, metrics, learn, slot_ret>>

\* main.py --settle-all
SettleAll ==
    /\ LastSettle.n < MaxSettles
    /\ LET st == settle_all(bandit, metrics, actions, engagement, DefaultArm)
       IN  /\ bandit' = st.bandit
           /\ metrics' = st.metrics
           /\ learn' = [op |-> "settle_all", ret |-> st.count,
                        last |-> [n |-> LastSettle.n + 1, actions |-> actions,
                                  engagement |-> engagement,
                                  repeat |-> /\ LastSettle.n > 0
                                             /\ LastSettle.actions = actions
                                             /\ LastSettle.engagement = engagement,
                                  before |-> bandit]]
    /\ UNCHANGED <<now, budgetVars, storeVars, rateVars, schedVars, retryVars,
                   engagement, slot_ret>>

\* the arm name bandit_choose is given for a topic: the topic itself
TopicArms(topics) == [i \in 1..Len(topics) |-> <<topics[i]>>]

\* run_post_action with learning enabled: the slot, then
\* storage.bandit_choose(topics)
ChooseTopic(slot, pick) ==
    /\ pick \in 1..Len(LearnTopics)
    /\ learn' = [op |-> "choose_topic", slot |-> slot, topics |-> LearnTopics,
                 read |-> bandit_reads(bandit, TopicArms(LearnTopics)),
                 ret |-> LearnTopics[pick], last |-> LastSettle]
    /\ UNCHANGED <<now, budgetVars, storeVars, rateVars, schedVars, retryVars,
                   bandit, metrics, engagement, slot_ret>>

LearnNext ==
    \/ \E slot \in Windows, i \in 1..Len(LearnTopics), e \in EngagementSamples :
          PostLogged(slot, LearnTopics[i], e)
    \/ \E post_id \in DOMAIN engagement, e \in EngagementSamples : Engage(post_id, e)
    \/ SettleAll
    \/ \E slot \in Windows, pick \in 1..Len(LearnTopics) : ChooseTopic(slot, pick)

SpecLearn == BanditInit /\ [][LearnNext]_vars

\* C28: running settle_all twice with no new posts and unchanged engagement
\* leaves every arm's alpha and beta after the second run equal to their
\* values after the first run.
C28_SettleOnce == LastSettle.repeat => bandit = LastSettle.before

\* C29: the posting path's bandit choice for a topic in a slot reads the
\* alpha and beta of the arm 'topic|slot|hasMedia' that settlement updates
\* for the posts of that topic and slot.
C29_SameArmKey ==
    learn.op = "choose_topic" =>
        \A i \in 1..Len(learn.topics) :
            <<learn.read[i].alpha, learn.read[i].beta>> =
                RowOr11(bandit, ArmKey(learn.topics[i], learn.slot, 0))

(***************************************************************************)
(* scheduler.py: _in_range, current_slot.  A time of day is the number of  *)
(* minutes since 00:00.                                                    *)
(***************************************************************************)
MaxWindows == 2

\* dtime(h, m)
dtime(h, m) == h * 60 + m

WindowNames == {"morning", "afternoon", "evening", "early-morning", "night", "late-night"}

WINDOWS ==
    [name \in WindowNames |->
        CASE name = "morning"       -> <<dtime(9, 0), dtime(12, 0)>>
          [] name = "afternoon"     -> <<dtime(13, 0), dtime(17, 0)>>
          [] name = "evening"       -> <<dtime(18, 0), dtime(21, 0)>>
          [] name = "early-morning" -> <<dtime(5, 0), dtime(8, 0)>>
          [] name = "night"         -> <<dtime(21, 0), dtime(23, 0)>>
          [] name = "late-night"    -> <<dtime(23, 0), dtime(2, 0)>>]

\* the range that never wraps past midnight
_in_range_NoWrap(t, start, end) == start <= t /\ t <= end

_in_range(t, start, end) ==
    IF start <= end
    THEN start <= t /\ t <= end
    ELSE t >= start \/ t <= end

\* current_slot: the values it can return
current_slot(windows, t) ==
    LET hits == {i \in 1..Len(windows) :
                    /\ windows[i] \in DOMAIN WINDOWS
                    /\ _in_range(t, WINDOWS[windows[i]][1], WINDOWS[windows[i]][2])}
    IN  IF hits # {}
        THEN {windows[CHOOSE i \in hits : \A j \in hits : i <= j]}
        ELSE IF windows # <<>>
             THEN {windows[i] : i \in 1..Len(windows)}
             ELSE {NoneVal}

\* names a configuration may list, one of them not in WINDOWS
ListedNames == {"morning", "evening", "night", "late-night", "siesta"}

WindowLists == UNION {[1..n -> ListedNames] : n \in 0..MaxWindows}

\* clock values at, just inside and just outside the bounds of the windows
ClockSamples ==
    {dtime(0, 0), dtime(1, 0), dtime(2, 0), dtime(2, 1), dtime(8, 59), dtime(9, 0),
     dtime(12, 0), dtime(12, 1), dtime(21, 0), dtime(22, 59), dtime(23, 0), dtime(23, 30)}

CurrentSlot(windows, t, ret) ==
    /\ slot_ret = NoRet
    /\ ret \in current_slot(windows, t)
    /\ slot_ret' = [op |-> "current_slot", windows |-> windows, now |-> t, ret |-> ret]
    /\ UNCHANGED <<now, budgetVars, storeVars, rateVars, schedVars, retryVars,
                   bandit, metrics, learn, engagement>>

SlotNext ==
    \E windows \in WindowLists, t \in ClockSamples :
        \E ret \in current_slot(windows, t) : CurrentSlot(windows, t, ret)

SpecSlot == BanditInit /\ [][SlotNext]_vars

\* the clock range of a listed name holds t, bounds inclusive; a range whose
\* start is after its end holds t iff t >= start or t <= end
Holds(name, t) ==
    /\ name \in WindowNames
    /\ LET start == WINDOWS[name][1]
           end == WINDOWS[name][2]
       IN  \/ start <= end /\ start <= t /\ t <= end
           \/ start > end /\ (t >= start \/ t <= end)

\* C30: current_slot(windows, now) returns the first name in list order
\* whose clock range contains now, bounds inclusive, a range with
\* start > end containing now iff now >= start or now <= end; when no listed
\* window matches it returns some member of windows, and it returns None
\* iff windows is empty.
C30_CurrentSlot ==
    slot_ret.op = "current_slot" =>
        LET w == slot_ret.windows
            t == slot_ret.now
            hits == {i \in 1..Len(w) : Holds(w[i], t)}
        IN  /\ \A i \in hits :
                  (\A j \in hits : i <= j) => slot_ret.ret = w[i]
            /\ hits = {} /\ w # <<>> => \E i \in 1..Len(w) : slot_ret.ret = w[i]
            /\ slot_ret.ret = NoneVal <=> w = <<>>

\* 01:00 with the windows morning and late-night listed: late-night
C30_Witness ==
    /\ slot_ret.op = "current_slot"
    /\ slot_ret.windows = <<"morning", "late-night">>
    /\ slot_ret.now = dtime(1, 0)
    /\ slot_ret.ret = "late-night"

(***************************************************************************)
(* Monthly usage rows (storage.py, budget.py)                              *)
(***************************************************************************)
\* rows are kept, no count of a row goes down, and only the row of the
\* current period changes
UsageMonotone ==
    \A p \in DOMAIN usage_monthly :
        /\ p \in DOMAIN usage_monthly'
        /\ usage_monthly'[p].create_count >= usage_monthly[p].create_count
        /\ usage_monthly'[p].read_count >= usage_monthly[p].read_count
        /\ p # period => usage_monthly'[p] = usage_monthly[p]

\* a call adds its argument to the row of the current period
UsageAddsArgument ==
    LET old == get_monthly_usage(usage_monthly, period)
        new == get_monthly_usage(usage_monthly', period)
    IN  \A n \in 1..MaxCount :
            /\ AddReads(n) => /\ new.read_count = old.read_count + n
                              /\ new.create_count = old.create_count
            /\ AddWrites(n) => /\ new.create_count = old.create_count + n
                               /\ new.read_count = old.read_count

DryStart(mode, client_dry, mpw, likes, follows) ==
    /\ pc = "idle"
    /\ passes' = passes + 1
    /\ cfg' = [mode |-> mode, dry_run |-> TRUE, client_dry |-> client_dry,
               plan |-> "free", queries |-> Queries, max_per_window |-> mpw,
               allow_likes |-> likes, allow_follows |-> follows]
    /\ pc' = "run_scheduler"
    /\ run_snap' = Snapshot
    /\ UNCHANGED <<now, budgetVars, storeVars, rateVars, retryVars, learnVars,
                   loc, api_calls, post_trace, post_snap>>

\* the steps a dry run can reach
DryNext ==
    \/ \E mode \in Modes, client_dry \in BOOLEAN, mpw \in MaxPerWindowChoices,
          likes \in FlagChoices, follows \in FlagChoices :
          DryStart(mode, client_dry, mpw, likes, follows)
    \/ \E on_weekday \in BOOLEAN : RunScheduler(on_weekday)
    \/ \E slot \in Windows, topic \in Topics :
          \E text \in choose_template(topic) : PostChoose(slot, topic, text)
    \/ PostDedup
    \/ PostReturn
    \/ \E outcome \in {"ok", "no_id", "none_data", "raise"} : GetMe(outcome)
    \/ \E ok \in BOOLEAN, posts \in SearchResults : Search(ok, posts)
    \/ ForPost
    \/ \E reply_text \in REPLY_TEMPLATES, jitter \in JitterChoices :
          ForAction(reply_text, jitter)
    \/ ExitRun

SpecDry == SchedInit /\ [][DryNext]_vars

\* the steps of a run that write: the budget check before the post, the
\* post, its log and commit, and the call and log of an interaction
WriteSteps == {"post_budget", "post_create", "post_log", "post_commit", "act_call", "act_log"}

\* C32: in dry-run mode a scheduler cycle changes no persistent state and
\* performs no write on the Social API: no ActionRecord is appended, no
\* fingerprint is stored, MonthlyUsage is unchanged, and create_post,
\* like_post, follow_user and retweet are never invoked, on the posting
\* path and on the interaction path.
C32_DryRunWritesNothing ==
    (pc \notin {"idle", "exited"} /\ cfg.dry_run) =>
        /\ actions = run_snap.actions
        /\ text_hashes = run_snap.text_hashes
        /\ usage_monthly = run_snap.usage_monthly
        /\ CallsWhere(IsWrite) = {}
        /\ pc \notin WriteSteps

\* a dry cycle of mode 'both' that came to its end: the post was printed
\* and an interaction was simulated on a candidate
C32_Witness ==
    /\ pc = "done"
    /\ cfg.dry_run
    /\ cfg.mode = "both"
    /\ post_trace = <<"not_duplicate", "dry_run">>
    /\ \E i \in 1..Len(api_calls) : api_calls[i].path = "simulated"

(***************************************************************************)
(* The jitter sleep of act_on_search                                       *)
(***************************************************************************)
\* jitter_seconds of the default configuration
JitterLow == 8
JitterHigh == 20

\* the steps of the loops of act_on_search over the posts and the actions
InActOnSearch == pc \in {"for_post", "for_action", "act_call", "act_log"}

\* the quota counters summed over the action kinds
QuotaLeft(remaining) ==
    Get(remaining, "reply") + Get(remaining, "like")
        + Get(remaining, "follow") + Get(remaining, "repost")

\* a step of act_on_search that stays in it either sleeps a jitter inside
\* the bounds and takes one from one counter, or does neither
SleepIffDecrement ==
    (InActOnSearch /\ pc' \in {"for_post", "for_action", "act_call", "act_log"}) =>
        \/ /\ now' = now
           /\ loc'.remaining = loc.remaining
        \/ /\ now' - now >= JitterLow
           /\ now' - now <= JitterHigh
           /\ QuotaLeft(loc'.remaining) = QuotaLeft(loc.remaining) - 1
           /\ \E k \in Kinds : \A j \in Kinds \ {k} :
                 Get(loc'.remaining, j) = Get(loc.remaining, j)

\* the sleep follows an action that was executed or simulated: the step
\* that sleeps is the one that adds the record of an executed action, or
\* the simulated call of a dry run
SleepFollowsAction ==
    (InActOnSearch /\ now' # now) =>
        IF cfg.dry_run
        THEN /\ Len(api_calls') = Len(api_calls) + 1
             /\ api_calls'[Len(api_calls')].path = "simulated"
        ELSE /\ Len(actions') = Len(actions) + 1
             /\ api_calls # <<>>
             /\ api_calls[Len(api_calls)].ok
             /\ api_calls[Len(api_calls)].path = "interact"

\* a candidate passed over as self-authored, or an action passed over as
\* already performed, is followed by no sleep
NoSleepOnSkip ==
    /\ (pc = "for_post" /\ loc.posts # <<>> /\ is_self(Head(loc.posts), loc.me_user_id))
          => now' = now
    /\ (pc = "for_action" /\ loc.acts # <<>>
          /\ already_acted(actions, TargetOf(Head(loc.acts), loc.post), Head(loc.acts)))
          => now' = now /\ loc'.remaining = loc.remaining

\* C33: in act_on_search exactly one jittered sleep, of a duration inside
\* the configured jitter bounds, follows each executed (or dry-run
\* simulated) action; no sleep occurs for a candidate skipped as
\* self-authored or for an action skipped as already performed, so the
\* number of sleeps equals the number of quota decrements.
C33_OneSleepPerAction ==
    [][SleepIffDecrement /\ SleepFollowsAction /\ NoSleepOnSkip]_vars

\* a pass that executed and logged one action, slept after it, and then
\* passed over an action it found already performed
C33_Witness ==
    /\ pc = "for_action"
    /\ ~cfg.dry_run
    /\ Len(actions) > Len(run_snap.actions)
    /\ actions[Len(actions)].dt < now
    /\ QuotaLeft(loc.remaining) = QuotaLeft(loc.limits) - 1
    /\ loc.acts # <<>>
    /\ already_acted(actions, TargetOf(Head(loc.acts), loc.post), Head(loc.acts))

(***************************************************************************)
(* The posting path after create_post                                      *)
(***************************************************************************)
\* the log holds the log of the start of run_post_action and, after it,
\* one record of the post: its id, text, topic and slot
PostRecorded ==
    /\ Len(actions) = Len(post_snap.actions) + 1
    /\ SubSeq(actions, 1, Len(post_snap.actions)) = post_snap.actions
    /\ LET r == actions[Len(actions)]
       IN  /\ r.kind = "post"
           /\ r.post_id = loc.post_id
           /\ r.text = loc.text
           /\ r.topic = loc.topic
           /\ r.slot = loc.slot

\* the fingerprint of the text is stored under the id of the post
FingerprintStored ==
    \E h \in text_hashes :
        /\ h.text = loc.text
        /\ h.text_hash = <<"sha256">> \o loc.text
        /\ h.post_id = loc.post_id

\* the month's counters against those of the start of run_post_action
CreatesSincePostStart ==
    get_monthly_usage(usage_monthly, period).create_count
        - get_monthly_usage(post_snap.usage_monthly, period).create_count

\* C34: on the non-dry-run posting path, when create_post returns, exactly
\* one ActionRecord (kind=post, with the returned post id, the text, the
\* chosen topic and slot) and the text's fingerprint are persisted, and
\* then the current month's create_count is increased by exactly 1; the
\* record is persisted before the budget commit, and neither happens if
\* create_post raises.
C34_RecordThenCommit ==
    /\ pc = "post_log" => loc.post_id = "p1" /\ Snapshot = post_snap
    /\ pc = "post_commit" =>
          /\ PostRecorded
          /\ FingerprintStored
          /\ usage_monthly = post_snap.usage_monthly
    /\ (pc = "post_return" /\ post_trace # <<>>
           /\ post_trace[Len(post_trace)] = "add_writes") =>
          /\ PostRecorded
          /\ FingerprintStored
          /\ CreatesSincePostStart = 1
          /\ usage_monthly = add_writes(post_snap.usage_monthly, period, 1)
          /\ post_trace = <<"not_duplicate", "allowed", "create_post",
                            "log_action", "add_writes">>
    /\ (pc = "failed" /\ post_trace # <<>>
           /\ post_trace[Len(post_trace)] = "create_post") =>
          Snapshot = post_snap

\* a post was created, logged and counted, and run_post_action returns
C34_Witness ==
    /\ pc = "post_return"
    /\ ~cfg.dry_run
    /\ post_trace # <<>>
    /\ post_trace[Len(post_trace)] = "add_writes"
    /\ PostRecorded
    /\ CreatesSincePostStart = 1

(***************************************************************************)
(* The posting path under a configured budget buffer                       *)
(***************************************************************************)
\* budget.buffer_pct of the configuration, in percent: the default and a
\* wider buffer
BufferChoices == {DefaultBufferPct, 10}

\* the store a posting run can find: usage around the soft write cap each
\* of the buffers gives
PostInit ==
    /\ now = StartTime
    /\ period = 1
    /\ budget_mgr = BudgetManager("free", DefaultBufferPct, 0, 0)
    /\ \E b \in BufferChoices :
          \E w \in {SoftCap(PLAN_CAPS["free"].writes, b) - 1,
                    SoftCap(PLAN_CAPS["free"].writes, b)} :
             usage_monthly = (1 :> [create_count |-> w, read_count |-> 0])
    /\ budget_ret = NoRet
    /\ budget_ops = 0
    /\ actions = <<>>
    /\ text_hashes \in
          { {}, store_text_hash({}, Tpl_a1, "p0", NoTime, StartTime - SecondsPerDay) }
    /\ dup_ret = NoRet
    /\ RateIdle
    /\ RetryIdle
    /\ LearnIdle
    /\ SchedIdle

\* main.py "run" with mode 'post': the configuration carries budget.buffer_pct
PostStart(buffer_pct) ==
    /\ pc = "idle"
    /\ passes' = passes + 1
    /\ cfg' = [mode |-> "post", dry_run |-> FALSE, client_dry |-> FALSE,
               plan |-> "free", buffer_pct |-> buffer_pct, queries |-> Queries,
               max_per_window |-> [k \in Kinds |-> 1],
               allow_likes |-> "auto", allow_follows |-> "auto"]
    /\ pc' = "run_scheduler"
    /\ run_snap' = Snapshot
    /\ UNCHANGED <<now, budgetVars, storeVars, rateVars, retryVars, learnVars,
                   loc, api_calls, post_trace, post_snap>>

PostNext ==
    \/ \E buffer_pct \in BufferChoices : PostStart(buffer_pct)
    \/ \E on_weekday \in BOOLEAN : RunScheduler(on_weekday)
    \/ \E slot \in Windows, topic \in Topics :
          \E text \in choose_template(topic) : PostChoose(slot, topic, text)
    \/ PostDedup
    \/ PostBudget
    \/ \E ok \in BOOLEAN : PostCreate(ok)
    \/ PostLog
    \/ PostCommit
    \/ PostReturn
    \/ ExitRun

SpecPost == PostInit /\ [][PostNext]_vars

\* the soft write cap the configuration asks for
ConfiguredSoftWriteCap == SoftCap(PLAN_CAPS[cfg.plan].writes, cfg.buffer_pct)

\* C35: the posting path's admission check applies the configured budget:
\* the soft cap it enforces is hard cap * (1 - buffer) for the plan tier
\* and the buffer percentage of the configuration, so that posting is
\* refused exactly when the month's writes plus one exceed that cap.
C35_ConfiguredBufferApplied ==
    (pc \notin {"idle", "exited"} /\ Len(post_trace) >= 2) =>
        LET writes == get_monthly_usage(post_snap.usage_monthly, period).create_count
        IN  post_trace[2] = "refused" <=> writes + 1 > ConfiguredSoftWriteCap

(***************************************************************************)
(* learn.py: settle_all over a log with incomplete records                 *)
(***************************************************************************)
MaxSettlePosts == 2

\* what a logged post can lack
RecordShapes == {"full", "no_post_id", "no_topic", "no_slot"}

\* the i-th newest post of the log
SettleRecord(i, shape) ==
    [post_id |-> IF shape = "no_post_id" THEN NoneVal ELSE LearnPostIds[i],
     kind |-> "post", dt |-> StartTime - i, ref_id |-> NoneVal, text |-> <<>>,
     topic |-> IF shape = "no_topic" THEN NoneVal ELSE LearnTopics[(i % 2) + 1],
     slot |-> IF shape = "no_slot" THEN NoneVal ELSE "morning",
     media |-> 0, status |-> "success"]

\* a log of posts, some of them incomplete, and what get_tweet answers
SettleInit ==
    /\ now = StartTime
    /\ period = 1
    /\ budget_mgr = BudgetManager("free", DefaultBufferPct, 0, 0)
    /\ usage_monthly = <<>>
    /\ budget_ret = NoRet
    /\ budget_ops = 0
    /\ \E n \in 0..MaxSettlePosts :
          /\ \E shapes \in [1..n -> RecordShapes] :
                actions = [i \in 1..n |-> SettleRecord(i, shapes[i])]
          /\ engagement \in [{LearnPostIds[i] : i \in 1..n} -> EngagementSamples]
    /\ text_hashes = {}
    /\ dup_ret = NoRet
    /\ RateIdle
    /\ RetryIdle
    /\ bandit = {}
    /\ metrics = {}
    /\ learn = NoRet
    /\ slot_ret = NoRet
    /\ SchedIdle

\* settle_all(client, storage, default_arm)
SettleAllWith(default_arm) ==
    /\ learn = NoRet
    /\ LET st == settle_all(bandit, metrics, actions, engagement, default_arm)
       IN  /\ bandit' = st.bandit
           /\ metrics' = st.metrics
           /\ learn' = [op |-> "settle_all", ret |-> st.count,
                        default_arm |-> default_arm]
    /\ UNCHANGED <<now, budgetVars, storeVars, rateVars, schedVars, retryVars,
                   engagement, slot_ret>>

SettleNext == \E default_arm \in {NoneVal, DefaultArm} : SettleAllWith(default_arm)

SpecSettle == SettleInit /\ [][SettleNext]_vars

\* the posts of the log settle_all calls settle for, with the arm it gives
HasArm(r, default_arm) ==
    (r.topic # NoneVal /\ r.slot # NoneVal) \/ default_arm # NoneVal

Attempted(default_arm) ==
    {i \in 1..Len(actions) :
        actions[i].post_id # NoneVal /\ HasArm(actions[i], default_arm)}

GivenArm(r, default_arm) ==
    IF r.topic # NoneVal /\ r.slot # NoneVal
    THEN <<r.topic, r.slot, "False">>
    ELSE default_arm

\* ... those whose settle call returned, and those whose fetch had data
Completed(default_arm) ==
    {i \in Attempted(default_arm) : engagement[actions[i].post_id].kind # "raise"}

WithData(default_arm) ==
    {i \in Attempted(default_arm) : engagement[actions[i].post_id].kind = "data"}

Instances == {1, 2}

\* the post ids the platform gives the two instances
RacePostIds == <<"p1", "p2">>

\* the texts the instances render: different, so that neither is a
\* duplicate of the other
RaceTexts == <<Tpl_a1, Tpl_a2>>

\* the count the admission check read and the row the commit read, each a
\* sequence of at most one element: empty before the read
RaceLocal == [seen |-> <<>>, row |-> <<>>]

\* both instances have passed the duplicate check; the month's writes are
\* near the soft cap
RaceInit ==
    /\ now = StartTime
    /\ period = 1
    /\ budget_mgr = BudgetManager("free", DefaultBufferPct, 0, 0)
    /\ \E w \in {budget_mgr.soft_write_cap - 2, budget_mgr.soft_write_cap - 1,
                 budget_mgr.soft_write_cap} :
          usage_monthly = (1 :> [create_count |-> w, read_count |-> 0])
    /\ budget_ret = NoRet
    /\ budget_ops = 0
    /\ StoreEmpty
    /\ RateIdle
    /\ RetryIdle
    /\ LearnIdle
    /\ pc = [i \in Instances |-> "post_budget"]
    /\ cfg = NoCfg
    /\ loc = [i \in Instances |-> RaceLocal]
    /\ api_calls = <<>>
    /\ post_trace = <<>>
    /\ post_snap = NoSnap
    /\ run_snap = Snapshot
    /\ passes = 0

\* the instance goes on without asking can_write
RaceBudget_NoCheck(i) ==
    /\ pc[i] = "post_budget"
    /\ loc' = [loc EXCEPT ![i].seen =
                  <<get_monthly_usage(usage_monthly, period).create_count>>]
    /\ pc' = [pc EXCEPT ![i] = "post_create"]
    /\ UNCHANGED <<now, budgetVars, storeVars, rateVars, retryVars, learnVars,
                   passes, cfg, api_calls, post_trace, post_snap, run_snap>>

\* run_post_action: BudgetManager(...).can_write(1) reads the stored count
RaceBudget(i) ==
    /\ pc[i] = "post_budget"
    /\ LET mgr == BudgetManager("free", DefaultBufferPct, 0, 0)
           ret == can_write(mgr, usage_monthly, period, 1)
       IN  IF ret[1]
           THEN /\ loc' = [loc EXCEPT ![i].seen =
                              <<get_monthly_usage(usage_monthly, period).create_count>>]
                /\ pc' = [pc EXCEPT ![i] = "post_create"]
           ELSE /\ pc' = [pc EXCEPT ![i] = "refused"]
                /\ UNCHANGED loc
    /\ UNCHANGED <<now, budgetVars, storeVars, rateVars, retryVars, learnVars,
                   passes, cfg, api_calls, post_trace, post_snap, run_snap>>

\* run_post_action: client.create_post(text)
RaceCreate(i, ok) ==
    /\ pc[i] = "post_create"
    /\ api_calls' = Append(api_calls, ApiCall("create_post", "post", RacePostIds[i], ok, 0))
    /\ pc' = [pc EXCEPT ![i] = IF ok THEN "post_log" ELSE "failed"]
    /\ UNCHANGED <<now, budgetVars, storeVars, rateVars, retryVars, learnVars,
                   passes, cfg, loc, post_trace, post_snap, run_snap>>

\* run_post_action: storage.log_action(kind="post", ...)
RaceLog(i) ==
    /\ pc[i] = "post_log"
    /\ actions' = log_action_rows(actions, "post", RacePostIds[i], NoneVal, RaceTexts[i],
                                  "automation", "morning", NoTime, now)
    /\ text_hashes' = log_action_hashes(text_hashes, RacePostIds[i], RaceTexts[i],
                                        NoTime, now)
    /\ pc' = [pc EXCEPT ![i] = "post_commit"]
    /\ UNCHANGED <<now, budgetVars, dup_ret, rateVars, retryVars, learnVars,
                   passes, cfg, loc, api_calls, post_trace, post_snap, run_snap>>

\* update_monthly_usage: the SELECT of the row of the period
RaceCommitRead(i) ==
    /\ pc[i] = "post_commit"
    /\ loc' = [loc EXCEPT ![i].row =
                  IF period \in DOMAIN usage_monthly THEN <<usage_monthly[period]>>
                  ELSE <<>>]
    /\ pc' = [pc EXCEPT ![i] = "commit_write"]
    /\ UNCHANGED <<now, budgetVars, storeVars, rateVars, retryVars, learnVars,
                   passes, cfg, api_calls, post_trace, post_snap, run_snap>>

\* update_monthly_usage: the UPDATE with the sums computed from the row that
\* was read, or the INSERT when there was none
RaceCommitWrite(i) ==
    /\ pc[i] = "commit_write"
    /\ usage_monthly' =
          IF loc[i].row # <<>>
          THEN [usage_monthly EXCEPT ![period] =
                   [create_count |-> loc[i].row[1].create_count + 1,
                    read_count |-> loc[i].row[1].read_count + 0]]
          ELSE update_monthly_usage(usage_monthly, period, 1, 0)
    /\ pc' = [pc EXCEPT ![i] = "done"]
    /\ UNCHANGED <<now, period, budget_mgr, budget_ret, budget_ops, storeVars,
                   rateVars, retryVars, learnVars, passes, cfg, loc, api_calls,
                   post_trace, post_snap, run_snap>>

RaceNext ==
    \E i \in Instances :
        \/ RaceBudget(i)
        \/ \E ok \in BOOLEAN : RaceCreate(i, ok)
        \/ RaceLog(i)
        \/ RaceCommitRead(i)
        \/ RaceCommitWrite(i)

SpecRace == RaceInit /\ [][RaceNext]_vars

\* the instances whose admission check allowed the post
Admitted == {i \in Instances : loc[i].seen # <<>>}

RaceWrites == get_monthly_usage(usage_monthly, period).create_count

RaceSoftCap == SoftCap(PLAN_CAPS["free"].writes, DefaultBufferPct)

\* C37: with two agent instances sharing one store and each running the
\* posting path, the admission check and the usage commit are not atomic:
\* each instance's own check holds against the count it read, and a count
\* above the soft cap arises only when both instances passed can_write(1)
\* before either had committed; it then exceeds the cap by one.
C37_CheckAndCommitNotAtomic ==
    /\ \A i \in Admitted : loc[i].seen[1] + 1 <= RaceSoftCap
    /\ RaceWrites > RaceSoftCap =>
          /\ Admitted = Instances
          /\ \A i \in Instances : pc[i] = "done"
          /\ RaceWrites = RaceSoftCap + 1

\* both instances read the same stored count, one below the soft cap, both
\* posted and committed, and the month's count is above the soft cap
C37_Witness ==
    /\ Admitted = Instances
    /\ loc[1].seen = loc[2].seen
    /\ loc[1].seen = <<RaceSoftCap - 1>>
    /\ \A i \in Instances : pc[i] = "done"
    /\ Cardinality(CallsWhere(LAMBDA c : c.call = "create_post" /\ c.ok)) = 2
    /\ RaceWrites > RaceSoftCap

(***************************************************************************)
(* Runs that can be terminated at any step, and the runs after them.       *)
(* api_calls keeps the calls the platform received from a terminated run.  *)
(***************************************************************************)
CrashLimits == [k \in Kinds |-> IF k = "like" THEN 1 ELSE 0]

CrashResults == { <<>>, <<PostAt(1)>>, <<PostAt(1), PostAt(4)>> }

\* main.py "run" with mode 'post' or 'interact'
CrashStart(mode) ==
    /\ pc \in {"idle", "exited"}
    /\ passes < MaxPasses
    /\ passes' = passes + 1
    /\ cfg' = [mode |-> mode, dry_run |-> FALSE, client_dry |-> FALSE,
               plan |-> "free", queries |-> Queries, max_per_window |-> CrashLimits,
               allow_likes |-> "auto", allow_follows |-> "auto"]
    /\ pc' = "run_scheduler"
    /\ run_snap' = Snapshot
    /\ UNCHANGED <<now, budgetVars, storeVars, rateVars, retryVars, learnVars,
                   loc, api_calls, post_trace, post_snap>>

\* the process is terminated: what it held in memory is gone, the store
\* and what the platform has received stay
Crash ==
    /\ pc \notin {"idle", "exited", "done", "failed"}
    /\ pc' = "exited"
    /\ cfg' = NoCfg
    /\ loc' = NoLoc
    /\ post_trace' = <<>>
    /\ post_snap' = NoSnap
    /\ run_snap' = NoSnap
    /\ UNCHANGED <<now, budgetVars, storeVars, rateVars, retryVars, learnVars,
                   passes, api_calls>>

CrashNext ==
    \/ \E mode \in {"post", "interact"} : CrashStart(mode)
    \/ RunScheduler(TRUE)
    \/ \E slot \in Windows, topic \in Topics :
          \E text \in choose_template(topic) : PostChoose(slot, topic, text)
    \/ PostDedup
    \/ PostBudget
    \/ \E ok \in BOOLEAN : PostCreate(ok)
    \/ PostLog
    \/ PostCommit
    \/ PostReturn
    \/ \E outcome \in {"ok", "raise"} : GetMe(outcome)
    \/ \E ok \in BOOLEAN, posts \in CrashResults : Search(ok, posts)
    \/ ForPost
    \/ \E reply_text \in REPLY_TEMPLATES, jitter \in InteractJitter :
          ForAction(reply_text, jitter)
    \/ \E ok \in BOOLEAN : ActCall(ok)
    \/ \E jitter \in InteractJitter : ActLog(jitter)
    \/ ExitRun
    \/ Crash

SpecCrash == InteractInit /\ [][CrashNext]_vars

\* a step that terminates a run before its end
Terminated == pc \notin {"idle", "exited", "done", "failed"} /\ pc' = "exited"

\* terminated between the call of an interaction and its log_action: the
\* call had returned, and the store the next pass finds has no record of
\* the action on the target
InteractionLost ==
    (Terminated /\ pc = "act_log") =>
        LET c == api_calls[Len(api_calls)]
        IN  /\ c.ok
            /\ c.path = "interact"
            /\ c.call = MethodOf(Head(loc.acts))
            /\ actions' = actions
            /\ ~(\E i \in 1..Len(actions') :
                    /\ actions'[i].post_id = c.target
                    /\ actions'[i].kind = Head(loc.acts))

\* terminated between create_post and its log_action: the post was made,
\* and the log, the fingerprints and MonthlyUsage are those run_post_action
\* had found
PostLost ==
    (Terminated /\ pc = "post_log") =>
        LET c == api_calls[Len(api_calls)]
        IN  /\ c.ok
            /\ c.call = "create_post"
            /\ actions' = post_snap.actions
            /\ text_hashes' = post_snap.text_hashes
            /\ usage_monthly' = post_snap.usage_monthly

\* C38: if the process is terminated after a Social API action call has
\* returned but before log_action persists its ActionRecord, the action is
\* missing from the log, so that a later pass finds already_acted(target,
\* kind) false and can issue the same action on the same target again; for
\* a post the write is also missing from MonthlyUsage.
C38_TerminationLosesAction == [][InteractionLost /\ PostLost]_vars

\* a second pass has liked the post the terminated first pass had liked:
\* the platform has received the like of t1 twice, and the log has none
C38_Witness ==
    /\ passes = 2
    /\ pc = "act_log"
    /\ Len(api_calls) >= 2
    /\ \E i \in 1..(Len(api_calls) - 1) :
          /\ api_calls[i].ok
          /\ api_calls[i].path = "interact"
          /\ api_calls[i].call = api_calls[Len(api_calls)].call
          /\ api_calls[i].target = api_calls[Len(api_calls)].target
    /\ api_calls[Len(api_calls)].ok
    /\ api_calls[Len(api_calls)].path = "interact"
    /\ actions = <<>>

(***************************************************************************)
(* Posting runs of one instance, one after the other, days apart           *)
(***************************************************************************)
MaxPostRuns == 3

MaxWaitDays == 8

\* the days that pass between two runs
WaitDays == {1, 6}

DedupDays == 7

\* main.py "run --mode post", not a dry run
RepostStart ==
    /\ pc \in {"idle", "exited"}
    /\ passes < MaxPostRuns
    /\ passes' = passes + 1
    /\ cfg' = [mode |-> "post", dry_run |-> FALSE, client_dry |-> FALSE,
               plan |-> "free", queries |-> Queries,
               max_per_window |-> [k \in Kinds |-> 0],
               allow_likes |-> "auto", allow_follows |-> "auto"]
    /\ pc' = "run_scheduler"
    /\ run_snap' = Snapshot
    /\ UNCHANGED <<now, budgetVars, storeVars, rateVars, retryVars, learnVars,
                   loc, api_calls, post_trace, post_snap>>

\* the agent is not running: time passes
WaitBetweenRuns(days) ==
    /\ pc \in {"idle", "exited"}
    /\ now + days * SecondsPerDay <= StartTime + MaxWaitDays * SecondsPerDay
    /\ now' = now + days * SecondsPerDay
    /\ UNCHANGED <<budgetVars, storeVars, rateVars, schedVars, retryVars, learnVars>>

RepostNext ==
    \/ RepostStart
    \/ \E days \in WaitDays : WaitBetweenRuns(days)
    \/ RunScheduler(TRUE)
    \/ \E slot \in Windows, topic \in Topics :
          \E text \in choose_template(topic) : PostChoose(slot, topic, text)
    \/ PostDedup
    \/ PostBudget
    \/ \E ok \in BOOLEAN : PostCreate(ok)
    \/ PostLog
    \/ PostCommit
    \/ PostReturn
    \/ ExitRun

SpecRepost == InteractInit /\ [][RepostNext]_vars

\* the posts of the log
LoggedPosts == {i \in 1..Len(actions) : actions[i].kind = "post"}

\* two texts are the same or near-duplicates: token-set Jaccard similarity
\* of the normalised texts at least 0.9
SameOrNear(t, u) ==
    \/ t = u
    \/ LET a == token_set(normalize_text(t))
           b == token_set(normalize_text(u))
       IN  /\ a \cup b # {}
           /\ Cardinality(a \cap b) * 10 >= 9 * Cardinality(a \cup b)

\* no two logged posts of the same or nearly the same text lie less than
\* seven days apart
NoRepeatInWindow ==
    \A i, j \in LoggedPosts :
        (i < j /\ SameOrNear(actions[i].text, actions[j].text)) =>
            actions[j].dt - actions[i].dt >= DedupDays * SecondsPerDay

\* a run that has rendered a text logged less than seven days ago returns
\* from the duplicate check with no call made
RepeatReturns ==
    (/\ pc = "post_dedup"
     /\ \E i \in LoggedPosts :
           /\ SameOrNear(actions[i].text, loc.text)
           /\ now - actions[i].dt < DedupDays * SecondsPerDay)
        => /\ pc' = "post_return"
           /\ api_calls' = api_calls
           /\ actions' = actions

\* C39: in a single agent instance, after any sequence of non-dry-run
\* posting runs, no two successful post actions made within the trailing
\* 7-day window carry identical text or texts whose token-set Jaccard
\* similarity is at least 0.9: once a post with text T is logged, every
\* later run_post_action that renders T (or such a near-duplicate) inside
\* the window returns without calling create_post.
C39_NoRepeatedPostInWindow == [](NoRepeatInWindow) /\ [][RepeatReturns]_vars

\* the same text posted twice, seven days apart, after a run in between,
\* six days after the first, was stopped by the duplicate check
RepostedAfterWindow ==
    /\ passes = 3
    /\ Cardinality(LoggedPosts) = 2
    /\ actions[1].text = actions[2].text
    /\ actions[2].dt - actions[1].dt = DedupDays * SecondsPerDay

\* the second run rendered the text of the first six days after it and
\* returned from the duplicate check
C39_Witness ==
    /\ passes = 2
    /\ pc = "post_return"
    /\ post_trace = <<"duplicate">>
    /\ Cardinality(LoggedPosts) = 1
    /\ now - actions[1].dt = 6 * SecondsPerDay

(***************************************************************************)
(* compute_reward without impression data                                  *)
(***************************************************************************)
\* the row of an arm without history after one settlement with reward r
SettledOnce(r) == bandit_row(bandit_update({}, DefaultArm, r), DefaultArm)

\* C40: when impressions are absent or 0, compute_reward takes only two
\* values: it is 1.0 whenever at least one of likes, replies, reposts,
\* quotes is positive (the weighted numerator is never below the unweighted
\* denominator) and 0.0 when all are 0; every settlement without impression
\* data therefore moves the arm by a full success or a full failure.
C40_AllOrNothingWithoutImpressions ==
    (learn.op = "compute_reward" /\ learn.impressions = 0) =>
        LET sum == learn.like + learn.reply + learn.rt + learn.quote
            weighted == learn.like + 2 * learn.reply + 2 * learn.rt + learn.quote
            row == SettledOnce(learn.ret)
        IN  /\ weighted >= sum
            /\ sum > 0 => /\ learn.ret = <<1, 1>>
                          /\ row = [alpha |-> <<2, 1>>, beta |-> <<1, 1>>]
            /\ sum = 0 => /\ learn.ret = <<0, 1>>
                          /\ row = [alpha |-> <<1, 1>>, beta |-> <<2, 1>>]

\* a single like and no impression count: the reward is 1
C40_Witness ==
    /\ learn.op = "compute_reward"
    /\ learn.impressions = 0
    /\ learn.like = 1 /\ learn.reply = 0 /\ learn.rt = 0 /\ learn.quote = 0
    /\ learn.ret = <<1, 1>>

====
